---- MODULE Spec2Model ----
(***************************************************************************)
(* A model of the short-link service (Debsnil24/URL_Shortner_Backend):     *)
(* the urls and url_visits tables behind gorm, the public redirect         *)
(* handler with its visit-recording transaction, the owner's whole-record  *)
(* updates, and short-code generation with its collision retry loop.       *)
(*                                                                         *)
(* Time is counted in minutes since 1970-01-01 00:00 UTC.  A *time.Time    *)
(* pointer is a sequence: <<>> is nil, <<t>> points at instant t.          *)
(***************************************************************************)
EXTENDS Integers, Sequences, FiniteSets, TLC

(***************************************************************************)
(* Bounds of the model.                                                    *)
(***************************************************************************)
\* Number of concurrent public redirect requests (GET or HEAD /:code).
NumReqs == 2
\* Number of concurrent owner operations (status, update, QR regeneration).
NumOps == 1
\* Number of concurrent GenerateShortCode calls.
NumCreators == 2
\* The clock advances in half-hour steps, at most MaxTick of them.
MaxTick == 2

Reqs == 1..NumReqs
Ops == 1..NumOps
Creators == 1..NumCreators

(***************************************************************************)
(* time.Time arithmetic (Go's proleptic Gregorian calendar).               *)
(***************************************************************************)
MinutesPerDay == 24 * 60

\* Days since 1970-01-01 of the civil date y-m-d (m in 1..12); yy is the
\* year counted from March, so that the leap day ends the year.
DaysFromMarchYear(yy, m, d) ==
    (yy \div 400) * 146097
    + (yy % 400) * 365 + (yy % 400) \div 4 - (yy % 400) \div 100
    + (153 * ((m + 9) % 12) + 2) \div 5 + d - 1
    - 719468

DaysFromCivil(y, m, d) == DaysFromMarchYear(IF m <= 2 THEN y - 1 ELSE y, m, d)

\* The civil date of a day number, as [year, month, day], computed through
\* the day of the 400-year era (doe), the year of the era (yoe), the day of
\* the March-based year (doy) and its month (mp, March = 0).
MakeCivil(y, m, d) == [year |-> IF m <= 2 THEN y + 1 ELSE y, month |-> m, day |-> d]

CivilFromMp(era, yoe, doy, mp) ==
    MakeCivil(yoe + era * 400, IF mp < 10 THEN mp + 3 ELSE mp - 9,
              doy - (153 * mp + 2) \div 5 + 1)

CivilFromDoy(era, yoe, doy) == CivilFromMp(era, yoe, doy, (5 * doy + 2) \div 153)

CivilFromYoe(era, doe, yoe) ==
    CivilFromDoy(era, yoe, doe - (365 * yoe + yoe \div 4 - yoe \div 100))

CivilFromDoe(era, doe) ==
    CivilFromYoe(era, doe,
                 (doe - doe \div 1460 + doe \div 36524 - doe \div 146096) \div 365)

CivilFromDays(z) == CivilFromDoe((z + 719468) \div 146097, (z + 719468) % 146097)

\* time.Date(year, month, day, ...) for a month counted from 0 that may lie
\* outside 0..11 and a day that may lie outside the month: the month carries
\* into the year and the day rolls into the following months.
DateOf(year, month0, day, tod) ==
    (DaysFromCivil(year + month0 \div 12, (month0 % 12) + 1, 1) + (day - 1))
        * MinutesPerDay + tod

AddDateCivil(c, tod, years, months, days) ==
    DateOf(c.year + years, (c.month - 1) + months, c.day + days, tod)

\* t.AddDate(years, months, days): the date fields are added and the result
\* is normalised by time.Date; the time of day is kept.
AddDate(t, years, months, days) ==
    AddDateCivil(CivilFromDays(t \div MinutesPerDay), t % MinutesPerDay,
                 years, months, days)

\* t.Add(d) for a duration of whole minutes.
AddMinutes(t, minutes) == t + minutes

\* t.After(u), t.Before(u), t.Equal(u)
\* Variant: an instant counts as after itself.
AfterOrEqual(t, u) == t >= u

After(t, u) == t > u
Before(t, u) == t < u
Equal(t, u) == t = u

\* The instant the model's clock starts at: 2024-01-31 00:00 UTC.
StartTime == DaysFromCivil(2024, 1, 31) * MinutesPerDay

\* The instants the clock can show.
Instants == {StartTime + 30 * k : k \in 0..MaxTick}

(***************************************************************************)
(* strconv.Atoi on a string given as a sequence of one-character strings.  *)
(***************************************************************************)
DigitValue(ch) ==
    CASE ch = "0" -> 0 [] ch = "1" -> 1 [] ch = "2" -> 2 [] ch = "3" -> 3
      [] ch = "4" -> 4 [] ch = "5" -> 5 [] ch = "6" -> 6 [] ch = "7" -> 7
      [] ch = "8" -> 8 [] ch = "9" -> 9 [] OTHER -> -1

RECURSIVE DigitsValue(_, _)
\* The value of the digit string s read after the prefix value acc, or -1
\* when a character is not a digit.
DigitsValue(s, acc) ==
    IF s = <<>> THEN acc
    ELSE IF DigitValue(Head(s)) < 0 THEN -1
    ELSE DigitsValue(Tail(s), acc * 10 + DigitValue(Head(s)))

\* strconv.Atoi: [ok, val]; an optional sign, then at least one digit.
Atoi(s) ==
    LET signed == s # <<>> /\ Head(s) \in {"+", "-"}
        digits == IF signed THEN Tail(s) ELSE s
        v      == IF digits = <<>> THEN -1 ELSE DigitsValue(digits, 0)
    IN  IF v < 0 THEN [ok |-> FALSE, val |-> 0]
        ELSE [ok |-> TRUE, val |-> IF signed /\ Head(s) = "-" THEN 0 - v ELSE v]

(***************************************************************************)
(* Errors.  An error is a string; "" is nil.                               *)
(***************************************************************************)
NoError == ""
ErrRecordNotFound == "record not found"
ErrDuplicatedKey == "duplicate key value violates unique constraint"
ErrForeignKey == "violates foreign key constraint"
ErrDatabase == "database error"
ErrYears == "years must be between 0 and 4"
ErrMonths == "months must be between 0 and 11"
ErrDays == "days must be between 0 and 30"
ErrHours == "hours must be between 0 and 23"
ErrMinutes == "minutes must be between 0 and 59"
ErrExceeds == "custom expiration cannot exceed 5 years (1825 days)"
ErrNotFuture == "expiration date must be in the future"
ErrInvalidPreset == "invalid expiration preset"
ErrMaxAttempts == "failed to generate unique short code after maximum attempts"
ErrURLNotFound == "URL not found"
ErrPermissionDenied == "permission denied"
ErrInvalidStatus == "status must be either 'active' or 'paused'"
ErrNoFieldsProvided == "at least one field (url, expiration_preset, or custom_expiration) must be provided"
ErrBothExpirationProvided == "cannot provide both expiration_preset and custom_expiration. Use only one"
ErrExpiredLinkUpdate == "cannot update URL of expired link. Update expiration to reactivate it"
ErrURLEmpty == "url cannot be empty"
ErrInvalidURLFormat == "invalid URL format"
ErrQRCode == "failed to generate QR code"

(***************************************************************************)
(* URLController.CalculateExpiration                                       *)
(***************************************************************************)
\* A *models.CustomExpiration: <<>> is nil, <<c>> points at the record c,
\* whose fields are strings (sequences of characters).
CustomFieldOK(field, lo, hi) ==
    Atoi(field).ok /\ Atoi(field).val >= lo /\ Atoi(field).val <= hi

\* The custom branch, entered with customExp # nil.
CalculateCustom(c, createdAt) ==
    LET years   == Atoi(c.Years).val
        months  == Atoi(c.Months).val
        days    == Atoi(c.Days).val
        hours   == Atoi(c.Hours).val
        minutes == Atoi(c.Minutes).val
        \* totalDays >= 1825 is compared in whole minutes: for fields inside
        \* their ranges the float64 sum stays far from 1825, so rounding of
        \* hours/24.0 and minutes/1440.0 cannot change the comparison
        totalMinutes == (years * 365 + months * 30 + days) * MinutesPerDay
                        + hours * 60 + minutes
        expiresAt == AddMinutes(AddMinutes(AddDate(createdAt, years, months, days),
                                           hours * 60), minutes)
    IN  IF ~CustomFieldOK(c.Years, 0, 4) THEN [err |-> ErrYears, at |-> <<>>]
        ELSE IF ~CustomFieldOK(c.Months, 0, 11) THEN [err |-> ErrMonths, at |-> <<>>]
        ELSE IF ~CustomFieldOK(c.Days, 0, 30) THEN [err |-> ErrDays, at |-> <<>>]
        ELSE IF ~CustomFieldOK(c.Hours, 0, 23) THEN [err |-> ErrHours, at |-> <<>>]
        ELSE IF ~CustomFieldOK(c.Minutes, 0, 59) THEN [err |-> ErrMinutes, at |-> <<>>]
        ELSE IF totalMinutes >= 1825 * MinutesPerDay THEN [err |-> ErrExceeds, at |-> <<>>]
        ELSE IF ~After(expiresAt, createdAt) THEN [err |-> ErrNotFuture, at |-> <<>>]
        ELSE [err |-> NoError, at |-> <<expiresAt>>]

\* Variant: the twelve hours are added as days.
CalculatePresetInDays(preset, createdAt) ==
    LET known == {"1hour", "12hours", "1day", "7days", "1month", "6months", "1year"}
        expiresAt ==
            CASE preset = "1hour"   -> AddMinutes(createdAt, 60)
              [] preset = "12hours" -> AddDate(createdAt, 0, 0, 12)
              [] preset = "1day"    -> AddDate(createdAt, 0, 0, 1)
              [] preset = "7days"   -> AddDate(createdAt, 0, 0, 7)
              [] preset = "1month"  -> AddDate(createdAt, 0, 1, 0)
              [] preset = "6months" -> AddDate(createdAt, 0, 6, 0)
              [] preset = "1year"   -> AddDate(createdAt, 1, 0, 0)
              [] OTHER              -> createdAt
    IN  IF preset \notin known THEN [err |-> ErrInvalidPreset, at |-> <<>>]
        ELSE IF ~After(expiresAt, createdAt) THEN [err |-> ErrNotFuture, at |-> <<>>]
        ELSE [err |-> NoError, at |-> <<expiresAt>>]

\* The preset branch, entered with a preset other than "" and "default".
CalculatePreset(preset, createdAt) ==
    LET known == {"1hour", "12hours", "1day", "7days", "1month", "6months", "1year"}
        expiresAt ==
            CASE preset = "1hour"   -> AddMinutes(createdAt, 60)
              [] preset = "12hours" -> AddMinutes(createdAt, 12 * 60)
              [] preset = "1day"    -> AddDate(createdAt, 0, 0, 1)
              [] preset = "7days"   -> AddDate(createdAt, 0, 0, 7)
              [] preset = "1month"  -> AddDate(createdAt, 0, 1, 0)
              [] preset = "6months" -> AddDate(createdAt, 0, 6, 0)
              [] preset = "1year"   -> AddDate(createdAt, 1, 0, 0)
              [] OTHER              -> createdAt
    IN  IF preset \notin known THEN [err |-> ErrInvalidPreset, at |-> <<>>]
        ELSE IF ~After(expiresAt, createdAt) THEN [err |-> ErrNotFuture, at |-> <<>>]
        ELSE [err |-> NoError, at |-> <<expiresAt>>]

\* Variant: a preset is looked at before the custom specification.
CalculateExpirationPresetFirst(preset, customExp, createdAt) ==
    IF preset # "" /\ preset # "default" THEN CalculatePreset(preset, createdAt)
    ELSE IF customExp # <<>> THEN CalculateCustom(customExp[1], createdAt)
    ELSE [err |-> NoError, at |-> <<AddDate(createdAt, 5, 0, 0)>>]

\* Variant: a specification that fails validation gives the default.
CalculateExpirationOrDefault(preset, customExp, createdAt) ==
    LET res == IF customExp # <<>> THEN CalculateCustom(customExp[1], createdAt)
               ELSE IF preset # "" /\ preset # "default"
               THEN CalculatePreset(preset, createdAt)
               ELSE [err |-> NoError, at |-> <<AddDate(createdAt, 5, 0, 0)>>]
    IN  IF res.err # NoError
        THEN [err |-> NoError, at |-> <<AddDate(createdAt, 5, 0, 0)>>]
        ELSE res

\* Priority: custom_expiration > expiration_preset > default (5 years).
CalculateExpiration(preset, customExp, createdAt) ==
    IF customExp # <<>> THEN CalculateCustom(customExp[1], createdAt)
    ELSE IF preset # "" /\ preset # "default" THEN CalculatePreset(preset, createdAt)
    ELSE [err |-> NoError, at |-> <<AddDate(createdAt, 5, 0, 0)>>]

\* models.CustomExpiration: five decimal strings.
Custom(years, months, days, hours, minutes) ==
    [Years |-> years, Months |-> months, Days |-> days, Hours |-> hours,
     Minutes |-> minutes]

Presets ==
    {"", "default", "1hour", "12hours", "1day", "7days", "1month", "6months", "1year",
     "2weeks"}

\* nil, or a custom specification: periods inside the ranges, the longest
\* one the ranges allow, the empty period, a year count above the range,
\* and a field that is not a number.
CustomExpirations ==
    {<<>>,
     <<Custom(<<"0">>, <<"0">>, <<"0">>, <<"2">>, <<"0">>)>>,
     <<Custom(<<"0">>, <<"0">>, <<"1">>, <<"0">>, <<"3", "0">>)>>,
     <<Custom(<<"1">>, <<"2">>, <<"0">>, <<"0">>, <<"0">>)>>,
     <<Custom(<<"4">>, <<"1", "1">>, <<"3", "0">>, <<"0">>, <<"0">>)>>,
     <<Custom(<<"4">>, <<"1", "1">>, <<"3", "0">>, <<"2", "3">>, <<"5", "9">>)>>,
     <<Custom(<<"0">>, <<"0">>, <<"0">>, <<"0">>, <<"0">>)>>,
     <<Custom(<<"5">>, <<"0">>, <<"0">>, <<"0">>, <<"0">>)>>,
     <<Custom(<<"0">>, <<"x">>, <<"0">>, <<"0">>, <<"0">>)>>}

NoCalculation ==
    [pc |-> "none", preset |-> "", customExp |-> <<>>, createdAt |-> 0,
     result |-> [err |-> NoError, at |-> <<>>]]

Called(preset, customExp, createdAt) ==
    [NoCalculation EXCEPT !.pc = "called", !.preset = preset,
                          !.customExp = customExp, !.createdAt = createdAt]

(***************************************************************************)
(* The database: tables urls and url_visits.                               *)
(***************************************************************************)
VARIABLES
    urls,      \* table urls: the set of committed rows (models.URL)
    visits,    \* table url_visits: the set of committed rows (models.URLVisit)
    nextID,    \* the sequence behind urls.id
    rowLock,   \* urls.id -> the request whose open transaction holds the
               \* row's write lock; ids that are not locked are not in the domain
    now,       \* the wall clock, time.Now()
    req,       \* the public redirect requests, Handler.RedirectURL
    op,        \* the owner's operations on a link
    cr,        \* the GenerateShortCode calls
    rl,        \* supportRateLimiter: the requests map and the holder of mu
    call,      \* the goroutines calling RateLimiter.Allow
    hist,      \* per client address, the Allow calls that returned: when, and what
    sup,       \* the requests to POST /api/support
    client,    \* a client of the authenticated surfaces: its cookies and tokens
    areq,      \* the client's last request through an authentication middleware
    calc       \* a call of CalculateExpiration: its parameters and its result

dbVars == <<urls, visits, nextID, rowLock>>
\* The link service proper, and the middleware around the handlers.
\* A call of CalculateExpiration on its own is left alone by both.
appVars == <<urls, visits, nextID, rowLock, req, op, cr, calc>>
mwVars == <<rl, call, hist, sup, client, areq, calc>>
vars == <<urls, visits, nextID, rowLock, now, req, op, cr, rl, call, hist, sup, client, areq,
          calc>>

Users == {"u1", "u2"}

\* The codes util.GenerateShortCode draws, cut down from 62^6 to two.
CodeSeq == <<"aaaaaa", "bbbbbb">>
Codes == {CodeSeq[i] : i \in 1..Len(CodeSeq)}

\* A URL string is a sequence of chunks, its scheme a chunk of its own.
\* The destination the modelled links are created with:
SeedURL == <<"https://", "example.com/seed">>

StatusActive == "active"
StatusPaused == "paused"

\* var urlRecord models.URL: the zero value.
ZeroURL ==
    [ID |-> 0, ShortCode |-> "", OriginalURL |-> <<>>, UserID |-> "",
     Status |-> "", CreatedAt |-> 0, UpdatedAt |-> 0, ExpiresAt |-> <<>>,
     ClickCount |-> 0, QRCodeImage |-> <<>>, QRCodeSize |-> 0,
     QRCodeFormat |-> "", QRCodeGeneratedAt |-> <<>>]

\* The urlRecord GenerateShortCode builds before c.DB.Create.
NewURLRecord(code, originalURL, userID, createdAt, expiresAt) ==
    [ZeroURL EXCEPT !.ShortCode = code, !.OriginalURL = originalURL,
                    !.ClickCount = 0, !.UserID = userID,
                    !.Status = "active", !.CreatedAt = createdAt,
                    !.UpdatedAt = createdAt, !.ExpiresAt = expiresAt]

\* The row with the smallest id of a non-empty set of rows (ORDER BY id LIMIT 1).
FirstRow(rows) == CHOOSE u \in rows : \A w \in rows : u.ID <= w.ID

\* c.DB.Where("short_code = ?", code).First(&urlRecord)
FirstByCode(tbl, code) ==
    LET rows == {u \in tbl : u.ShortCode = code}
    IN  IF rows = {} THEN [err |-> ErrRecordNotFound, row |-> ZeroURL]
        ELSE [err |-> NoError, row |-> FirstRow(rows)]

\* Variant: a urls table without the unique index on short_code.
UniqueIndexViolatedNoIndex(tbl, row) == FALSE

\* The unique index on urls.short_code (gorm:"unique").
UniqueIndexViolated(tbl, row) == \E u \in tbl : u.ShortCode = row.ShortCode

\* c.DB.Create(&urlRecord): the row gets the next id of the sequence; the
\* insert fails when the unique index on short_code rejects it.
CreateURL(tbl, id, row) ==
    IF UniqueIndexViolated(tbl, row)
    THEN [err |-> ErrDuplicatedKey, tbl |-> tbl, row |-> row]
    ELSE [err |-> NoError, tbl |-> tbl \cup {[row EXCEPT !.ID = id]},
          row |-> [row EXCEPT !.ID = id]]

\* The rows of url_visits that reference the link with this id
\* (Where("url_id = ?", id)).
VisitsOf(tbl, id) == {v \in tbl : v.URLID = id}

(***************************************************************************)
(* URLController.GenerateShortCode (the link creation routine)             *)
(***************************************************************************)
maxAttempts == 10

\* Variant: a loop bound that is off by one (attempt <= maxAttempts).
LoopContinuesInclusive(attempt) == attempt <= maxAttempts

\* for attempt := 0; attempt < maxAttempts; attempt++
LoopContinues(attempt) == attempt < maxAttempts

\* Variant: every error of the existence check is taken for "not found".
IsRecordNotFoundAnyError(err) == err # NoError

\* errors.Is(err, gorm.ErrRecordNotFound)
IsRecordNotFound(err) == err = ErrRecordNotFound

\* A call that has not started.  draws counts the codes the running call
\* has generated so far;
\* err is the error of the call's last query and, once the call is done, the
\* error it returned; result is <<>> (nil) or <<urlRecord>>.
IdleCreator ==
    [pc |-> "idle", attempt |-> 0, draws |-> 0, userID |-> "", preset |-> "",
     customExp |-> <<>>, urlRecord |-> ZeroURL, err |-> NoError, result |-> <<>>]

\* Calls of one kind are interchangeable: call i + 1 starts after call i.
StartsInOrder(calls, i) == IF i = 1 THEN TRUE ELSE calls[i - 1].pc # "idle"

\* The callers and presets of the modelled calls.  The caller's id is only
\* copied into the record.
CreateUsers == {"u1"}
CreatePresets == {"1hour", "bogus"}

\* A caller invokes GenerateShortCode(originalURL, userID, preset, customExp).
\* Calls are interchangeable, so call c + 1 starts after call c.
GenerateStart(c) ==
    /\ cr[c].pc = "idle"
    /\ StartsInOrder(cr, c)
    /\ \E u \in CreateUsers, preset \in CreatePresets :
         cr' = [cr EXCEPT ![c] = [IdleCreator EXCEPT !.pc = "loop", !.userID = u,
                                                     !.preset = preset]]
    /\ UNCHANGED <<urls, visits, nextID, rowLock, now, req, op>>
    /\ UNCHANGED mwVars

\* return urlRecord, err: the call's locals are gone, its results stay.
Return(me, result, err) ==
    [IdleCreator EXCEPT !.pc = "done", !.result = result, !.err = err]

\* One iteration of the loop up to c.DB.Create: generate a code, look it up,
\* and on "not found" compute the expiry and build the record.
GenerateAttempt(c) ==
    /\ cr[c].pc = "loop"
    /\ \E code \in Codes, fault \in {NoError, ErrDatabase} :
         LET me     == [cr[c] EXCEPT !.draws = @ + 1]
             found  == IF fault # NoError THEN [err |-> fault, row |-> ZeroURL]
                       ELSE FirstByCode(urls, code)
             exp    == CalculateExpiration(me.preset, me.customExp, now)
         IN  cr' = [cr EXCEPT ![c] =
               IF found.err = NoError
               THEN \* code exists, try again
                    IF LoopContinues(me.attempt + 1)
                    THEN [me EXCEPT !.attempt = @ + 1]
                    ELSE Return(me, <<>>, ErrMaxAttempts)
               ELSE IF ~IsRecordNotFound(found.err)
               THEN Return(me, <<>>, found.err)
               ELSE IF exp.err # NoError
               THEN Return(me, <<>>, exp.err)
               ELSE [me EXCEPT !.pc = "create", !.err = found.err,
                               !.urlRecord = NewURLRecord(code, SeedURL, me.userID,
                                                          now, exp.at)]]
    /\ UNCHANGED <<urls, visits, nextID, rowLock, now, req, op>>
    /\ UNCHANGED mwVars

\* c.DB.Create(&urlRecord) and the return that follows it.
GenerateCreate(c) ==
    /\ cr[c].pc = "create"
    /\ \E fault \in {NoError, ErrDatabase} :
         LET created == CreateURL(urls, nextID, cr[c].urlRecord)
         IN  IF fault # NoError
             THEN /\ cr' = [cr EXCEPT ![c] = Return(@, <<>>, fault)]
                  /\ UNCHANGED <<urls, nextID>>
             ELSE /\ nextID' = nextID + 1
                  /\ urls' = created.tbl
                  /\ cr' = [cr EXCEPT ![c] =
                        IF created.err # NoError
                        THEN Return(@, <<>>, created.err)
                        ELSE Return(@, <<created.row>>, NoError)]
    /\ UNCHANGED <<visits, rowLock, now, req, op>>
    /\ UNCHANGED mwVars

(***************************************************************************)
(* Handler.RedirectURL: GET /:code and HEAD /:code                         *)
(***************************************************************************)
StatusOK == 200
StatusFound == 302
StatusBadRequest == 400
StatusNotFound == 404
StatusGone == 410
StatusInternalServerError == 500

\* A path parameter is a sequence of chunks; the chunk " " is white space.
\* strings.TrimSpace drops the white space at both ends.
RECURSIVE TrimLeft(_)
TrimLeft(p) == IF p # <<>> /\ Head(p) = " " THEN TrimLeft(Tail(p)) ELSE p

RECURSIVE TrimRight(_)
TrimRight(p) ==
    IF p # <<>> /\ p[Len(p)] = " " THEN TrimRight(SubSeq(p, 1, Len(p) - 1)) ELSE p

TrimSpace(p) == TrimRight(TrimLeft(p))

\* A path parameter as the string the tables hold: the modelled parameters
\* have at most one chunk that is not white space.
Str(p) == IF p = <<>> THEN "" ELSE p[1]

\* The path parameters the modelled clients send.
PathParams == {<<"aaaaaa">>, <<" ", "aaaaaa", " ">>, <<"bbbbbb">>, <<"api">>, <<" ">>}

reservedPaths == {"swagger", "api", "auth", "favicon.ico", "robots.txt"}

\* Variant: a link is still served at the very instant of its expiry.
IsExpiredStrictlyBefore(row, t) == row.ExpiresAt # <<>> /\ Before(row.ExpiresAt[1], t)

\* urlRecord.ExpiresAt != nil && (ExpiresAt.Before(now) || ExpiresAt.Equal(now))
IsExpired(row, t) ==
    row.ExpiresAt # <<>> /\ (Before(row.ExpiresAt[1], t) \/ Equal(row.ExpiresAt[1], t))

\* urlRecord.Status == "paused"
IsPaused(row) == row.Status = "paused"

\* Variant: a handler without the HEAD branch.
IsHeadRequestNever(method) == FALSE

\* c.Request.Method == "HEAD"
IsHeadRequest(method) == method = "HEAD"

\* The fields of urlRecord the handler still reads after its checks.
Resolved(row) == [ID |-> row.ID, OriginalURL |-> row.OriginalURL]
Unresolved == [ID |-> 0, OriginalURL |-> <<>>]

\* The handler up to the point where it either answers or starts recording
\* the visit: [status, location, urlRecord]; status 0 means "not answered
\* yet, record the visit".  fault is the error the lookup's query hits.
ResolveRedirect(param, method, fault, tbl, t) ==
    LET code  == Str(TrimSpace(param))
        found == IF fault # NoError THEN [err |-> fault, row |-> ZeroURL]
                 ELSE FirstByCode(tbl, code)
        answer(status, location) ==
            [status |-> status, location |-> location, urlRecord |-> Unresolved]
    IN  IF code = "" THEN answer(StatusBadRequest, <<>>)
        ELSE IF code \in reservedPaths THEN answer(StatusNotFound, <<>>)
        ELSE IF found.err # NoError
        THEN IF IsRecordNotFound(found.err) THEN answer(StatusNotFound, <<>>)
             ELSE answer(StatusInternalServerError, <<>>)
        ELSE IF IsPaused(found.row) THEN answer(StatusGone, <<>>)
        ELSE IF IsExpired(found.row, t) THEN answer(StatusGone, <<>>)
        ELSE IF IsHeadRequest(method) THEN answer(StatusOK, found.row.OriginalURL)
        ELSE [status |-> 0, location |-> <<>>, urlRecord |-> Resolved(found.row)]

\* A request that has not arrived.  recorded tells whether
\* RecordVisitAndIncrement returned nil for it.
IdleReq ==
    [pc |-> "idle", method |-> "", code |-> "", urlRecord |-> Unresolved,
     newCount |-> 0, status |-> 0, location |-> <<>>, recorded |-> FALSE]

\* The request arrives; the handler looks the code up and runs its checks.
RedirectLookup(r) ==
    /\ req[r].pc = "idle"
    /\ StartsInOrder(req, r)
    /\ \E param \in PathParams, method \in {"GET", "HEAD"},
          fault \in {NoError, ErrDatabase} :
         LET res == ResolveRedirect(param, method, fault, urls, now)
         IN  req' = [req EXCEPT ![r] =
                [IdleReq EXCEPT !.pc = IF res.status = 0 THEN "begin" ELSE "done",
                                !.method = method, !.code = Str(TrimSpace(param)),
                                !.urlRecord = res.urlRecord,
                                !.status = res.status,
                                !.location = res.location]]
    /\ UNCHANGED <<urls, visits, nextID, rowLock, now, op, cr>>
    /\ UNCHANGED mwVars

(***************************************************************************)
(* URLController.RecordVisitAndIncrement: one database transaction         *)
(***************************************************************************)
\* models.URLVisit{URLID, IPAddress, UserAgent} of request r; the row's id
\* is drawn from a sequence, so it is unique: the request's number here.
VisitOf(r) ==
    [ID |-> r, URLID |-> req[r].urlRecord.ID, IPAddress |-> "203.0.113.7",
     UserAgent |-> "curl/8"]

\* Variant: the insert runs outside a transaction and is committed at once.
VisitsAfterCreateAutocommit(committed, visit) == committed \cup {visit}

\* The committed rows of url_visits after tx.Create(&visit) inside the
\* transaction: the insert stays pending until the commit.
VisitsAfterCreate(committed, visit) == committed

\* Variant: an UPDATE that does not wait for the row's lock and computes
\* click_count + 1 from the committed version it sees.
RowLockFreeNoWait(lock, id) == TRUE

\* The row lock UPDATE takes: the statement waits while another open
\* transaction holds the lock of the row.
RowLockFree(lock, id) == id \notin DOMAIN lock

Lock(lock, id, r) == [i \in DOMAIN lock \cup {id} |-> IF i = id THEN r ELSE lock[i]]
Unlock(lock, r) == [i \in {j \in DOMAIN lock : lock[j] # r} |-> lock[i]]

\* click_count + 1, evaluated by the database on the row's latest version.
IncrementedCount(row) == row.ClickCount + 1

\* The table with the click_count of row id set to n.
SetClickCount(tbl, id, n) ==
    {IF u.ID = id THEN [u EXCEPT !.ClickCount = n] ELSE u : u \in tbl}

\* The handler's tail: log the failure if any, then c.Redirect(302, ...).
Redirected(me, recorded) ==
    [me EXCEPT !.pc = "done", !.status = StatusFound,
               !.location = me.urlRecord.OriginalURL, !.recorded = recorded,
               !.newCount = 0]

\* Variant: a handler that answers 500 when recording the visit failed.
AfterRecordingOrFail(me, err) ==
    IF err = NoError THEN Redirected(me, TRUE)
    ELSE [Redirected(me, FALSE) EXCEPT !.status = StatusInternalServerError,
                                       !.location = <<>>]

\* The status the handler answers with after RecordVisitAndIncrement returned.
AfterRecording(me, err) == Redirected(me, err = NoError)

\* BEGIN; tx.Create(&visit).  The insert fails on a database error or when
\* the foreign key url_visits.url_id finds no parent row; the transaction
\* is then rolled back and the error returned.
TxCreateVisit(r) ==
    /\ req[r].pc = "begin"
    /\ \E fault \in {NoError, ErrDatabase} :
         LET id  == req[r].urlRecord.ID
             err == IF fault # NoError THEN fault
                    ELSE IF ~\E u \in urls : u.ID = id THEN ErrForeignKey
                    ELSE NoError
         IN  IF err # NoError
             THEN /\ req' = [req EXCEPT ![r] = AfterRecording(@, err)]
                  /\ UNCHANGED visits
             ELSE /\ req' = [req EXCEPT ![r].pc = "inserted"]
                  /\ visits' = VisitsAfterCreate(visits, VisitOf(r))
    /\ UNCHANGED <<urls, nextID, rowLock, now, op, cr>>
    /\ UNCHANGED mwVars

\* tx.Model(&models.URL{}).Where("id = ?", urlID).UpdateColumn("click_count",
\* gorm.Expr("click_count + ?", 1)): the row is locked and its new version
\* stays pending until the commit.
TxUpdateClickCount(r) ==
    /\ req[r].pc = "inserted"
    /\ RowLockFree(rowLock, req[r].urlRecord.ID)
    /\ \E fault \in {NoError, ErrDatabase} :
         LET id  == req[r].urlRecord.ID
             row == CHOOSE u \in urls : u.ID = id
         IN  IF fault # NoError
             THEN /\ req' = [req EXCEPT ![r] = AfterRecording(@, fault)]
                  /\ UNCHANGED rowLock
             ELSE /\ req' = [req EXCEPT ![r].pc = "updated",
                                        ![r].newCount = IncrementedCount(row)]
                  /\ rowLock' = Lock(rowLock, id, r)
    /\ UNCHANGED <<urls, visits, nextID, now, op, cr>>
    /\ UNCHANGED mwVars

\* COMMIT (or its failure, which rolls back), then the handler's redirect.
TxCommit(r) ==
    /\ req[r].pc = "updated"
    /\ \E fault \in {NoError, ErrDatabase} :
         IF fault # NoError
         THEN /\ req' = [req EXCEPT ![r] = AfterRecording(@, fault)]
              /\ UNCHANGED <<urls, visits>>
         ELSE /\ visits' = visits \cup {VisitOf(r)}
              /\ urls' = SetClickCount(urls, req[r].urlRecord.ID, req[r].newCount)
              /\ req' = [req EXCEPT ![r] = AfterRecording(@, NoError)]
    /\ rowLock' = Unlock(rowLock, r)
    /\ UNCHANGED <<nextID, now, op, cr>>
    /\ UNCHANGED mwVars

\* The serving process dies, or its connection drops, inside the
\* transaction: the database rolls the open transaction back and the client
\* gets no answer.
TxCrash(r) ==
    /\ req[r].pc \in {"begin", "inserted", "updated"}
    /\ req' = [req EXCEPT ![r].pc = "crashed", ![r].newCount = 0]
    /\ rowLock' = Unlock(rowLock, r)
    /\ UNCHANGED <<urls, visits, nextID, now, op, cr>>
    /\ UNCHANGED mwVars

(***************************************************************************)
(* The owner's operations: each reads the whole record, changes its copy   *)
(* and writes the whole record back with c.DB.Save.                        *)
(***************************************************************************)
\* c.DB.Save(&urlRecord) of a record with a primary key: UPDATE of every
\* column WHERE id = urlRecord.ID, with updated_at (autoUpdateTime) set to
\* the instant of the statement.
SaveURL(tbl, row, t) ==
    {u \in tbl : u.ID # row.ID} \cup {[row EXCEPT !.UpdatedAt = t]}

\* Variant: no ownership check.
NotOwnerNever(row, userID) == FALSE

\* urlRecord.UserID != userID
NotOwner(row, userID) == row.UserID # userID

\* The lookup the operations start with, with their error mapping.
FindForOwner(tbl, code, userID, fault) ==
    LET found == IF fault # NoError THEN [err |-> fault, row |-> ZeroURL]
                 ELSE FirstByCode(tbl, code)
    IN  IF found.err # NoError
        THEN [err |-> IF IsRecordNotFound(found.err) THEN ErrURLNotFound
                      ELSE found.err,
              row |-> ZeroURL]
        ELSE IF NotOwner(found.row, userID)
        THEN [err |-> ErrPermissionDenied, row |-> ZeroURL]
        ELSE found

\* An operation that has not started; urlRecord is the handler's copy.
\* args are the parameters the operation was called with.
ZeroRequest == [URL |-> <<>>, ExpirationPreset |-> "", CustomExpiration |-> <<>>]
NoArgs == [code |-> "", userID |-> "", status |-> "", request |-> ZeroRequest, size |-> 0]
IdleOp ==
    [pc |-> "idle", kind |-> "", args |-> NoArgs, urlRecord |-> ZeroURL, err |-> NoError]

WithArgs(o, args) == [o EXCEPT !.args = args]

Failed(kind, err) == [IdleOp EXCEPT !.pc = "done", !.kind = kind, !.err = err]
ReadyToSave(kind, row) == [IdleOp EXCEPT !.pc = "save", !.kind = kind, !.urlRecord = row]

\* Variant: the status value is stored as it was sent.
StatusUpdateOfAnyValue(tbl, code, userID, status, fault, t) ==
    LET found == FindForOwner(tbl, code, userID, fault)
    IN  IF found.err # NoError THEN found
        ELSE [err |-> NoError,
              row |-> [found.row EXCEPT !.Status = status, !.UpdatedAt = t]]

\* UpdateURLStatus up to c.DB.Save: [err, row].
StatusUpdate(tbl, code, userID, status, fault, t) ==
    LET found == FindForOwner(tbl, code, userID, fault)
    IN  IF status # "active" /\ status # "paused"
        THEN [err |-> ErrInvalidStatus, row |-> ZeroURL]
        ELSE IF found.err # NoError THEN found
        ELSE [err |-> NoError,
              row |-> [found.row EXCEPT !.Status = status, !.UpdatedAt = t]]

UpdateURLStatusRead(o) ==
    /\ op[o].pc = "idle"
    /\ StartsInOrder(op, o)
    /\ \E code \in Codes, userID \in Users, status \in {"active", "paused", "deleted"},
          fault \in {NoError, ErrDatabase} :
         LET res == StatusUpdate(urls, code, userID, status, fault, now)
             args == [NoArgs EXCEPT !.code = code, !.userID = userID, !.status = status]
         IN  op' = [op EXCEPT ![o] = WithArgs(IF res.err # NoError
                                              THEN Failed("status", res.err)
                                              ELSE ReadyToSave("status", res.row), args)]
    /\ UNCHANGED <<urls, visits, nextID, rowLock, now, req, cr>>
    /\ UNCHANGED mwVars

\* len(s) of a string given in chunks.
ChunkLen(ch) ==
    CASE ch = " " -> 1 [] ch = "https://" -> 8 [] ch = "http://" -> 7
      [] ch = "x.co" -> 4 [] ch = "a" -> 1 [] ch = "example.com/seed" -> 16
      [] ch = "example.org/new" -> 15

RECURSIVE StrLen(_)
StrLen(p) == IF p = <<>> THEN 0 ELSE ChunkLen(Head(p)) + StrLen(Tail(p))

\* strings.HasPrefix(s, scheme) for a scheme chunk.
HasPrefix(p, scheme) == p # <<>> /\ Head(p) = scheme

\* newURL after the scheme is ensured.
WithScheme(newURL) ==
    IF ~HasPrefix(newURL, "http://") /\ ~HasPrefix(newURL, "https://")
    THEN <<"https://">> \o newURL ELSE newURL

\* UpdateURL up to c.DB.Save: [err, row].  request is
\* models.UpdateURLRequest{URL, ExpirationPreset, CustomExpiration}.
URLUpdate(tbl, code, userID, request, fault, t) ==
    LET found               == FindForOwner(tbl, code, userID, fault)
        hasURLUpdate        == TrimSpace(request.URL) # <<>>
        hasExpirationUpdate == request.ExpirationPreset # "" \/ request.CustomExpiration # <<>>
        hasBothExpiration   == request.ExpirationPreset # "" /\ request.CustomExpiration # <<>>
        isExpired           == IsExpired(found.row, t)
        newURL              == WithScheme(TrimSpace(request.URL))
        newExpiresAt        == CalculateExpiration(request.ExpirationPreset,
                                                   request.CustomExpiration, t)
        fail(err)           == [err |-> err, row |-> ZeroURL]
    IN  IF found.err # NoError THEN found
        ELSE IF ~hasURLUpdate /\ ~hasExpirationUpdate THEN fail(ErrNoFieldsProvided)
        ELSE IF hasBothExpiration THEN fail(ErrBothExpirationProvided)
        ELSE IF isExpired /\ hasURLUpdate /\ ~hasExpirationUpdate
        THEN fail(ErrExpiredLinkUpdate)
        ELSE IF hasURLUpdate /\ StrLen(newURL) < 10 THEN fail(ErrInvalidURLFormat)
        ELSE IF hasExpirationUpdate /\ newExpiresAt.err # NoError
        THEN fail(newExpiresAt.err)
        ELSE [err |-> NoError,
              row |-> [found.row EXCEPT
                         !.OriginalURL = IF hasURLUpdate THEN newURL ELSE @,
                         !.ExpiresAt = IF hasExpirationUpdate THEN newExpiresAt.at ELSE @,
                         !.UpdatedAt = t]]

\* The update requests the modelled owners send.
UpdateRequests ==
    [URL : {<<>>, <<" ">>, <<"a">>, <<"x.co">>, <<"example.org/new">>},
     ExpirationPreset : {"", "1hour", "2weeks"},
     CustomExpiration : {<<>>,
                         <<[Years |-> <<"0">>, Months |-> <<"0">>, Days |-> <<"0">>,
                            Hours |-> <<"2">>, Minutes |-> <<"0">>]>>,
                         <<[Years |-> <<"0">>, Months |-> <<"0">>, Days |-> <<"0">>,
                            Hours |-> <<"0">>, Minutes |-> <<"0">>]>>}]

UpdateURLRead(o) ==
    /\ op[o].pc = "idle"
    /\ StartsInOrder(op, o)
    /\ \E code \in Codes, userID \in Users, request \in UpdateRequests,
          fault \in {NoError, ErrDatabase} :
         LET res == URLUpdate(urls, code, userID, request, fault, now)
             args == [NoArgs EXCEPT !.code = code, !.userID = userID, !.request = request]
         IN  op' = [op EXCEPT ![o] = WithArgs(IF res.err # NoError
                                              THEN Failed("update", res.err)
                                              ELSE ReadyToSave("update", res.row), args)]
    /\ UNCHANGED <<urls, visits, nextID, rowLock, now, req, cr>>
    /\ UNCHANGED mwVars

ValidQRCodeSizes == {256, 512, 1024}

\* util.GenerateQRCode(url, size): the image is a function of its inputs.
RenderQRCode(url, size) ==
    IF size \notin ValidQRCodeSizes \/ url = <<>> THEN [err |-> ErrQRCode, png |-> <<>>]
    ELSE [err |-> NoError, png |-> <<url, size>>]

\* GenerateQRCode up to c.DB.Save: [err, row].
QRUpdate(tbl, code, userID, size, fault, t) ==
    LET found    == FindForOwner(tbl, code, userID, fault)
        shortURL == <<"https://www.sniply.co.in/", code>>
        qr       == RenderQRCode(shortURL, size)
    IN  IF found.err # NoError THEN found
        ELSE IF qr.err # NoError THEN [err |-> qr.err, row |-> ZeroURL]
        ELSE [err |-> NoError,
              row |-> [found.row EXCEPT !.QRCodeImage = qr.png, !.QRCodeSize = size,
                                        !.QRCodeFormat = "png",
                                        !.QRCodeGeneratedAt = <<t>>,
                                        !.UpdatedAt = t]]

GenerateQRCodeRead(o) ==
    /\ op[o].pc = "idle"
    /\ StartsInOrder(op, o)
    /\ \E code \in Codes, userID \in Users, size \in {256, 512, 100},
          fault \in {NoError, ErrDatabase} :
         LET res == QRUpdate(urls, code, userID, size, fault, now)
             args == [NoArgs EXCEPT !.code = code, !.userID = userID, !.size = size]
         IN  op' = [op EXCEPT ![o] = WithArgs(IF res.err # NoError
                                              THEN Failed("qr", res.err)
                                              ELSE ReadyToSave("qr", res.row), args)]
    /\ UNCHANGED <<urls, visits, nextID, rowLock, now, req, cr>>
    /\ UNCHANGED mwVars

\* c.DB.Save(&urlRecord) and the return that follows it.  The UPDATE waits
\* while an open transaction holds the row's lock.
OwnerSave(o) ==
    /\ op[o].pc = "save"
    /\ RowLockFree(rowLock, op[o].urlRecord.ID)
    /\ \E fault \in {NoError, ErrDatabase} :
         IF fault # NoError
         THEN /\ op' = [op EXCEPT ![o] = WithArgs(Failed(@.kind, fault), @.args)]
              /\ UNCHANGED urls
         ELSE /\ urls' = SaveURL(urls, op[o].urlRecord, now)
              /\ op' = [op EXCEPT ![o].pc = "done", ![o].urlRecord.UpdatedAt = now]
    /\ UNCHANGED <<visits, nextID, rowLock, now, req, cr>>
    /\ UNCHANGED mwVars

\* c.DB.Delete(&urlRecord): the row with the primary key of urlRecord goes,
\* and with it the visits that reference it (constraint:OnDelete:CASCADE).
DeleteURLRow(tbl, row) == {u \in tbl : u.ID # row.ID}
CascadeVisits(tbl, row) == {v \in tbl : v.URLID # row.ID}

\* DeleteURL up to c.DB.Delete.
DeleteURLRead(o) ==
    /\ op[o].pc = "idle"
    /\ StartsInOrder(op, o)
    /\ \E code \in Codes, userID \in Users, fault \in {NoError, ErrDatabase} :
         LET res  == FindForOwner(urls, code, userID, fault)
             args == [NoArgs EXCEPT !.code = code, !.userID = userID]
         IN  op' = [op EXCEPT ![o] =
                      WithArgs(IF res.err # NoError THEN Failed("delete", res.err)
                               ELSE [IdleOp EXCEPT !.pc = "delete", !.kind = "delete",
                                                   !.urlRecord = res.row], args)]
    /\ UNCHANGED <<urls, visits, nextID, rowLock, now, req, cr>>
    /\ UNCHANGED mwVars

\* c.DB.Delete(&urlRecord) and the return that follows it.  The DELETE
\* waits while an open transaction holds the row's lock.
OwnerDelete(o) ==
    /\ op[o].pc = "delete"
    /\ RowLockFree(rowLock, op[o].urlRecord.ID)
    /\ \E fault \in {NoError, ErrDatabase} :
         IF fault # NoError
         THEN /\ op' = [op EXCEPT ![o] = WithArgs(Failed("delete", fault), @.args)]
              /\ UNCHANGED <<urls, visits>>
         ELSE /\ urls' = DeleteURLRow(urls, op[o].urlRecord)
              /\ visits' = CascadeVisits(visits, op[o].urlRecord)
              /\ op' = [op EXCEPT ![o].pc = "done"]
    /\ UNCHANGED <<nextID, rowLock, now, req, cr>>
    /\ UNCHANGED mwVars

DefaultQRCodeSize == 256

\* Variant: the stored image is never taken as present.
HasQRCodeNever(row) == FALSE

\* len(urlRecord.QRCodeImage) != 0
HasQRCode(row) == row.QRCodeImage # <<>>

\* GetQRCode up to its return or its call of GenerateQRCode.
GetQRCodeRead(o) ==
    /\ op[o].pc = "idle"
    /\ StartsInOrder(op, o)
    /\ \E code \in Codes, userID \in Users, fault \in {NoError, ErrDatabase} :
         LET res  == FindForOwner(urls, code, userID, fault)
             args == [NoArgs EXCEPT !.code = code, !.userID = userID,
                                    !.size = DefaultQRCodeSize]
         IN  op' = [op EXCEPT ![o] =
                      WithArgs(IF res.err # NoError THEN Failed("getqr", res.err)
                               ELSE IF ~HasQRCode(res.row)
                               THEN [IdleOp EXCEPT !.pc = "generate", !.kind = "getqr"]
                               ELSE [IdleOp EXCEPT !.pc = "done", !.kind = "getqr",
                                                   !.urlRecord = res.row], args)]
    /\ UNCHANGED <<urls, visits, nextID, rowLock, now, req, cr>>
    /\ UNCHANGED mwVars

\* The call of GenerateQRCode(code, userID, util.DefaultQRCodeSize) inside
\* GetQRCode, up to c.DB.Save.
GetQRCodeGenerate(o) ==
    /\ op[o].pc = "generate"
    /\ \E fault \in {NoError, ErrDatabase} :
         LET res == QRUpdate(urls, op[o].args.code, op[o].args.userID,
                             DefaultQRCodeSize, fault, now)
         IN  op' = [op EXCEPT ![o] = WithArgs(IF res.err # NoError
                                              THEN Failed("getqr", res.err)
                                              ELSE ReadyToSave("getqr", res.row),
                                              @.args)]
    /\ UNCHANGED <<urls, visits, nextID, rowLock, now, req, cr>>
    /\ UNCHANGED mwVars

StatusForbidden == 403
StatusUnprocessableEntity == 422

\* errors.New(text): a pointer to a new errorString.  Two error values are
\* the same error only if they are the same allocation, here its site.
ErrorsNew(text, site) == [text |-> text, site |-> site]

\* The package variables of controller/errors.go.
Sentinel(text) == ErrorsNew(text, "controller/errors.go")

\* errors.Is for errors that wrap nothing: the comparison err == target.
ErrorsIs(err, target) == err = target

\* The error value an operation of the controller returns for the failure
\* with this text: a new one made at the return statement.
ControllerError(text) == ErrorsNew(text, "controller/controller.go")

\* strings.Contains(errMsg, ...) for the texts of the validation errors.
IsValidationText(text) ==
    text \in {ErrYears, ErrMonths, ErrDays, ErrHours, ErrMinutes, ErrExceeds,
              ErrInvalidPreset, ErrNotFuture, ErrInvalidURLFormat}

\* handleControllerError: [handled, status].
handleControllerError(err) ==
    IF ErrorsIs(err, Sentinel(ErrURLNotFound))
    THEN [handled |-> TRUE, status |-> StatusNotFound]
    ELSE IF ErrorsIs(err, Sentinel(ErrPermissionDenied))
    THEN [handled |-> TRUE, status |-> StatusForbidden]
    ELSE IF ErrorsIs(err, Sentinel(ErrInvalidStatus))
    THEN [handled |-> TRUE, status |-> StatusBadRequest]
    ELSE IF ErrorsIs(err, Sentinel(ErrExpiredLinkUpdate))
    THEN [handled |-> TRUE, status |-> StatusGone]
    ELSE IF ErrorsIs(err, Sentinel(ErrNoFieldsProvided))
    THEN [handled |-> TRUE, status |-> StatusBadRequest]
    ELSE IF ErrorsIs(err, Sentinel(ErrBothExpirationProvided))
    THEN [handled |-> TRUE, status |-> StatusBadRequest]
    ELSE IF IsValidationText(err.text)
    THEN [handled |-> TRUE, status |-> StatusUnprocessableEntity]
    ELSE [handled |-> FALSE, status |-> 0]

\* The caller has the result; the goroutine serves its next request.
OwnerReturn(o) ==
    /\ op[o].pc = "done"
    /\ op' = [op EXCEPT ![o] = IdleOp]
    /\ UNCHANGED <<urls, visits, nextID, rowLock, now, req, cr>>
    /\ UNCHANGED mwVars

(***************************************************************************)
(* middleware.RateLimiter: a sliding window of request timestamps per      *)
(* client address, behind one mutex.                                       *)
(***************************************************************************)
\* supportRateLimiter = NewRateLimiter(5, 15*time.Minute); window in minutes.
maxReqs == 5
window == 15

\* The client addresses (c.ClientIP()) of the modelled requests.
ClientIPs == {"198.51.100.1", "198.51.100.2"}

\* The goroutines that call Allow, and the number of calls they make in all.
Callers == 1..NumReqs
MaxCalls == 7

\* The instants of the limiter's clock: a third of the window apart.
LimiterStep == window \div 3
LimiterInstants == {StartTime + LimiterStep * k : k \in 0..(MaxTick + 1)}

\* rl.requests[ip]: the zero value (nil) for an address that is not a key.
TimesOf(requests, ip) == IF ip \in DOMAIN requests THEN requests[ip] ELSE <<>>

\* Variant: a timestamp exactly one window old still counts.
StillInWindowInclusive(t, cutoff) == ~Before(t, cutoff)

\* t.After(cutoff)
StillInWindow(t, cutoff) == After(t, cutoff)

\* validTimes: the timestamps of times that are newer than cutoff, in order.
ValidTimes(times, cutoff) == SelectSeq(times, LAMBDA t : StillInWindow(t, cutoff))

\* Variant: the limit is checked with > instead of >=.
LimitReachedOffByOne(validTimes) == Len(validTimes) > maxReqs

\* len(validTimes) >= rl.maxReqs
LimitReached(validTimes) == Len(validTimes) >= maxReqs

\* Variant: a lock that never blocks.
MutexFreeAlways(mu) == TRUE

\* rl.mu: <<>> when unlocked, <<holder>> when locked.
MutexFree(mu) == mu = <<>>

\* rl.requests[ip] = validTimes
Store(requests, ip, validTimes) ==
    [k \in DOMAIN requests \cup {ip} |-> IF k = ip THEN validTimes ELSE requests[k]]

\* Variant: a rejected request is recorded as well.
RequestsAfterRejectRecorded(requests, ip, validTimes, t) ==
    Store(requests, ip, Append(validTimes, t))

\* The map after "return false": the filtered list is dropped, nothing is
\* written.
RequestsAfterReject(requests, ip, validTimes, t) == requests

\* The map after the current request is added and stored.
RequestsAfterAllow(requests, ip, validTimes, t) ==
    Store(requests, ip, Append(validTimes, t))

\* Variant: a key left without timestamps stays in the map.
CleanedUpKeepingKeys(requests, cutoff) ==
    [k \in DOMAIN requests |-> ValidTimes(requests[k], cutoff)]

\* cleanupOldEntries: every key keeps its timestamps newer than cutoff; a
\* key left without timestamps is deleted.
CleanedUp(requests, cutoff) ==
    [k \in {ip \in DOMAIN requests : ValidTimes(requests[ip], cutoff) # <<>>}
        |-> ValidTimes(requests[k], cutoff)]

\* The limiter after NewRateLimiter.
NewRateLimiter == [requests |-> <<>>, mu |-> <<>>]

\* A goroutine outside Allow.
IdleCaller == [pc |-> "idle", ip |-> "", at |-> 0, validTimes |-> <<>>]

\* The calls to Allow that have returned, per client address.
NoCalls == [ip \in ClientIPs |-> <<>>]
RECURSIVE CallsOf(_, _)
CallsOf(h, ips) ==
    IF ips = {} THEN 0
    ELSE LET ip == CHOOSE k \in ips : TRUE IN Len(h[ip]) + CallsOf(h, ips \ {ip})
CallsMade(h) == CallsOf(h, ClientIPs)

\* Allow, first half: rl.mu.Lock(); now := time.Now(); the stored
\* timestamps of the address are read and filtered.
AllowLocks(c, ip) ==
    /\ call[c].pc = "idle"
    /\ MutexFree(rl.mu)
    /\ call' = [call EXCEPT ![c] =
                  [pc |-> "locked", ip |-> ip, at |-> now,
                   validTimes |-> ValidTimes(TimesOf(rl.requests, ip), now - window)]]
    /\ rl' = [rl EXCEPT !.mu = <<c>>]

\* What the call of goroutine c is about to return.
AllowResult(c) == ~LimitReached(call[c].validTimes)

\* Allow, second half: the limit is checked, the request is recorded or
\* not, and the deferred rl.mu.Unlock() runs at the return.
AllowUnlocks(c) ==
    /\ call[c].pc = "locked"
    /\ LET me == call[c]
       IN  /\ rl' = [requests |-> IF AllowResult(c)
                                  THEN RequestsAfterAllow(rl.requests, me.ip,
                                                          me.validTimes, me.at)
                                  ELSE RequestsAfterReject(rl.requests, me.ip,
                                                           me.validTimes, me.at),
                     mu |-> IF rl.mu = <<c>> THEN <<>> ELSE rl.mu]
           /\ call' = [call EXCEPT ![c] = IdleCaller]
           /\ hist' = [hist EXCEPT ![me.ip] =
                         Append(@, [at |-> me.at, ok |-> AllowResult(c)])]

\* A goroutine calls Allow for some client address.
AllowLock(c) ==
    /\ CallsMade(hist) + Cardinality({d \in Callers : call[d].pc = "locked"}) < MaxCalls
    /\ \E ip \in ClientIPs : AllowLocks(c, ip)
    /\ UNCHANGED <<now, hist, sup, client, areq>>
    /\ UNCHANGED appVars

\* The call returns.
AllowReturn(c) ==
    /\ AllowUnlocks(c)
    /\ UNCHANGED <<now, sup, client, areq>>
    /\ UNCHANGED appVars

\* The cleanup goroutine's ticker fires: cleanupOldEntries under the lock.
Cleanup ==
    /\ MutexFree(rl.mu)
    /\ rl' = [rl EXCEPT !.requests = CleanedUp(rl.requests, now - window)]
    /\ UNCHANGED <<now, call, hist, sup, client, areq>>
    /\ UNCHANGED appVars

\* The limiter's clock advances by a third of the window.
LimiterTick ==
    /\ now + LimiterStep \in LimiterInstants
    /\ now' = now + LimiterStep
    /\ UNCHANGED <<rl, call, hist, sup, client, areq>>
    /\ UNCHANGED appVars

(***************************************************************************)
(* POST /api/support: RateLimit, RequestTimeout(30 s), SubmitSupport, run  *)
(* by gin's Context.Next over the handler chain of the route.              *)
(***************************************************************************)
StatusTooManyRequests == 429
StatusGatewayTimeout == 504

\* The handlers of the route, handlers[0] first.
supportChain == <<"RateLimit", "RequestTimeout", "SubmitSupport">>

\* The requests to the route; request s calls Allow as goroutine s.
Supports == Callers

\* gin's abortIndex: the index at which Context.Next runs no handler.
abortIndex == 63

\* Variant: Abort leaves the chain index as it is.
AbortWithoutEffect(index) == index

\* c.Abort()
Abort(index) == abortIndex

\* c.IsAborted()
IsAborted(index) == index >= abortIndex

\* A request that has not arrived. pc is the position of the goroutine
\* that serves the request, hpc that of the goroutine RequestTimeout
\* starts; index is c.index, tmp the value the second goroutine read for
\* its c.index++; written are the status codes of the bodies written to
\* the response, entered the handlers that were run, in order; ctx tells
\* why ctx.Done() is closed, finished whether the channel finished is,
\* allowed what Allow returned ("" before it returned).
IdleSupport ==
    [pc |-> "idle", hpc |-> "none", ip |-> "", index |-> -1, tmp |-> -1,
     written |-> <<>>, entered |-> <<>>, ctx |-> "", finished |-> FALSE,
     allowed |-> ""]

\* c.JSON(status, ...)
WriteJSON(me, status) == [me EXCEPT !.written = Append(@, status)]

\* The serving goroutine runs handler h of the chain.
EnterHandler(me, h) ==
    [me EXCEPT !.entered = Append(@, h),
               !.pc = IF h = "RequestTimeout" THEN "select" ELSE "handler",
               !.hpc = IF h = "RequestTimeout" THEN "start" ELSE @]

\* Context.Next on the serving goroutine, at a call and after a handler
\* returned to it: c.index++, then the handler at c.index is run if there
\* is one; otherwise the request ends.
NextLoop(me) ==
    LET i == me.index + 1
    IN  IF i < Len(supportChain)
        THEN EnterHandler([me EXCEPT !.index = i], supportChain[i + 1])
        ELSE [me EXCEPT !.index = i, !.pc = "ended"]

\* Both goroutines of a request are through: the response is sent, the
\* Context goes back to the pool, where gin resets its index and its
\* writer, and the request's context and channel are garbage.
Recycled(me) ==
    IF me.pc = "ended" /\ me.hpc = "closed"
    THEN [IdleSupport EXCEPT !.pc = "ended", !.hpc = "closed", !.allowed = me.allowed]
    ELSE me

\* RateLimit after Allow returned false: 429, Abort, return.
RateLimitRejects(me) ==
    NextLoop([WriteJSON(me, StatusTooManyRequests) EXCEPT !.index = Abort(@)])

\* The statuses SubmitSupport answers with: the body was bound and its
\* fields are filled, or not.
SubmitSupportStatuses == {StatusOK, StatusBadRequest}

\* The requests to the route that are being served at the same time: a
\* request is in flight from its arrival until both of its goroutines are
\* through.
MaxInFlight == 1
InFlight(me) == me.pc # "idle" /\ ~(me.pc = "ended" /\ me.hpc \in {"none", "closed"})

\* The request arrives: the engine runs RateLimit, which calls Allow.
RateLimitEnter(s) ==
    /\ sup[s].pc = "idle"
    /\ StartsInOrder(sup, s)
    /\ Cardinality({t \in Supports : InFlight(sup[t])}) < MaxInFlight
    /\ \E ip \in ClientIPs :
         /\ AllowLocks(s, ip)
         /\ sup' = [sup EXCEPT ![s] =
                      [@ EXCEPT !.pc = "allow", !.ip = ip, !.index = 0,
                                !.entered = <<supportChain[1]>>]]
    /\ UNCHANGED <<now, hist, client, areq>>
    /\ UNCHANGED appVars

\* Allow returns: RateLimit rejects the request or calls c.Next().
RateLimitDecide(s) ==
    /\ sup[s].pc = "allow"
    /\ AllowUnlocks(s)
    /\ sup' = [sup EXCEPT ![s] =
                 IF AllowResult(s) THEN NextLoop([@ EXCEPT !.allowed = "true"])
                 ELSE RateLimitRejects([@ EXCEPT !.allowed = "false"])]
    /\ UNCHANGED <<now, client, areq>>
    /\ UNCHANGED appVars

\* The goroutine of RequestTimeout calls c.Next(): it reads c.index.
HandlerNextRead(s) ==
    /\ sup[s].hpc = "start"
    /\ sup' = [sup EXCEPT ![s] = [@ EXCEPT !.hpc = "read", !.tmp = sup[s].index]]
    /\ UNCHANGED <<now, rl, call, hist, client, areq>>
    /\ UNCHANGED appVars

\* It stores the incremented index and runs the handler at that index; if
\* there is none, c.Next() returns and finished is closed.
HandlerNextWrite(s) ==
    /\ sup[s].hpc = "read"
    /\ LET me == sup[s]
           i == me.tmp + 1
       IN  sup' = [sup EXCEPT ![s] =
                     IF i < Len(supportChain)
                     THEN [me EXCEPT !.index = i, !.hpc = "running",
                                     !.entered = Append(@, supportChain[i + 1])]
                     ELSE Recycled([me EXCEPT !.index = i, !.hpc = "closed",
                                              !.finished = TRUE])]
    /\ UNCHANGED <<now, rl, call, hist, client, areq>>
    /\ UNCHANGED appVars

\* SubmitSupport on that goroutine writes its answer. Once the request has
\* ended the Context and its writer are recycled: the write is lost, or it
\* still reaches the response.
HandlerWrite(s) ==
    /\ sup[s].hpc = "running"
    /\ \E status \in SubmitSupportStatuses, lost \in BOOLEAN :
         /\ lost => sup[s].pc = "ended"
         /\ sup' = [sup EXCEPT ![s] =
                      [(IF lost THEN @ ELSE WriteJSON(@, status))
                          EXCEPT !.hpc = "wrote"]]
    /\ UNCHANGED <<now, rl, call, hist, client, areq>>
    /\ UNCHANGED appVars

\* SubmitSupport returns, c.Next() returns, close(finished).
HandlerClose(s) ==
    /\ sup[s].hpc = "wrote"
    /\ sup' = [sup EXCEPT ![s] =
                 Recycled([@ EXCEPT !.hpc = "closed", !.index = @ + 1,
                                    !.finished = TRUE])]
    /\ UNCHANGED <<now, rl, call, hist, client, areq>>
    /\ UNCHANGED appVars

\* Variant: a context without deadline and cancellation.
ContextDoneNever(s) ==
    /\ sup[s].pc = "select"
    /\ FALSE
    /\ UNCHANGED vars

\* ctx.Done() is closed: the deadline passed, or the request's own context
\* was cancelled because the client went away.
ContextDone(s) ==
    /\ sup[s].pc = "select"
    /\ sup[s].ctx = ""
    /\ \E why \in {"deadline", "canceled"} :
         sup' = [sup EXCEPT ![s] = [@ EXCEPT !.ctx = why]]
    /\ UNCHANGED <<now, rl, call, hist, client, areq>>
    /\ UNCHANGED appVars

\* select takes case <-finished: RequestTimeout returns.
SelectFinished(s) ==
    /\ sup[s].pc = "select"
    /\ sup[s].finished
    /\ sup' = [sup EXCEPT ![s] = Recycled(NextLoop(@))]
    /\ UNCHANGED <<now, rl, call, hist, client, areq>>
    /\ UNCHANGED appVars

\* The branch of case <-ctx.Done(): 504 and Abort if the deadline was
\* exceeded and the request is not aborted.
TimedOut(me) ==
    IF me.ctx = "deadline" /\ ~IsAborted(me.index)
    THEN [WriteJSON(me, StatusGatewayTimeout) EXCEPT !.index = Abort(@)]
    ELSE me

\* select takes case <-ctx.Done(): RequestTimeout answers and returns.
SelectDone(s) ==
    /\ sup[s].pc = "select"
    /\ sup[s].ctx # ""
    /\ sup' = [sup EXCEPT ![s] = Recycled(NextLoop(TimedOut(@)))]
    /\ UNCHANGED <<now, rl, call, hist, client, areq>>
    /\ UNCHANGED appVars

\* SubmitSupport run by the serving goroutine itself (RequestTimeout
\* returned without Abort before the other goroutine moved c.index).
ServingHandlerWrite(s) ==
    /\ sup[s].pc = "handler"
    /\ \E status \in SubmitSupportStatuses :
         sup' = [sup EXCEPT ![s] = Recycled(NextLoop(WriteJSON(@, status)))]
    /\ UNCHANGED <<now, rl, call, hist, client, areq>>
    /\ UNCHANGED appVars

(***************************************************************************)
(* util: the tokens. A token string is modelled by what a verifier can     *)
(* tell about it: its claims, its algorithm, and whether its signature is  *)
(* the HMAC of its content under JWT_SECRET.                               *)
(***************************************************************************)
\* JWT_EXPIRY_HOURS and QR_TOKEN_EXPIRY_MINUTES of the modelled deployment.
jwtExpiryHours == 1
qrTokenExpiryMinutes == 30

\* The user of the modelled client; user.ID.String().
UserID == "0b3f7a52-5d0e-4c58-9d0a-6c1f2e8a9b11"
UserEmail == "user@example.com"

\* uuid.Parse succeeds on these strings.
UUIDs == {UserID}

\* Variant: every subject is taken for an identifier.
uuidParsesAnything(str) == TRUE

\* uuid.Parse(str) returns no error.
uuidParses(str) == str \in UUIDs

\* A token of JWTClaims has no short_code and no token_type: read as
\* QRTokenClaims, both are empty.
GenerateToken(userID, email, t) ==
    [user_id |-> userID, email |-> email, short_code |-> "", token_type |-> "",
     exp |-> t + 60 * jwtExpiryHours, nbf |-> t, alg |-> "HS256", sig |-> "secret"]

GenerateQRToken(userID, email, shortCode, t) ==
    [user_id |-> userID, email |-> email, short_code |-> shortCode,
     token_type |-> "qr",
     exp |-> t + qrTokenExpiryMinutes, nbf |-> t, alg |-> "HS256", sig |-> "secret"]

\* The errors of jwt.ParseWithClaims, and those of the util functions.
ErrTokenMalformed == "token is malformed"
ErrTokenUnverifiable == "token is unverifiable"
ErrTokenSignatureInvalid == "token signature is invalid"
ErrTokenExpired == "token is expired"
ErrTokenNotValidYet == "token is not valid yet"
ErrTokenType == "invalid token type"

\* Variant: a token is still good at the instant of its expiry.
IsTokenExpiredStrictlyAfter(tok, t) == After(t, tok.exp)

\* The validator's check of exp: the token is good while now.Before(exp).
IsTokenExpired(tok, t) == ~Before(t, tok.exp)

\* jwt.ParseWithClaims with the key function of ValidateToken: the token
\* is split and decoded, the method is checked by the key function, the
\* signature is verified, and only then the claims are validated.
ParseWithClaims(tok, t) ==
    CASE tok.sig = "malformed"      -> ErrTokenMalformed
      [] tok.alg # "HS256"          -> ErrTokenUnverifiable
      [] tok.sig # "secret"         -> ErrTokenSignatureInvalid
      [] IsTokenExpired(tok, t)     -> ErrTokenExpired
      [] Before(t, tok.nbf)         -> ErrTokenNotValidYet
      [] OTHER                      -> NoError

\* ValidateToken: [claims, err]; the error wraps the parser's.
ValidateToken(tok, t) ==
    [claims |-> IF ParseWithClaims(tok, t) = NoError THEN <<tok>> ELSE <<>>,
     err |-> ParseWithClaims(tok, t)]

\* Variant: the token type is not looked at.
ValidateQRTokenOfAnyType(tok, t) == ValidateToken(tok, t)

\* ValidateQRToken: as ValidateToken, and the token type must be "qr".
ValidateQRToken(tok, t) ==
    LET err == IF ParseWithClaims(tok, t) # NoError THEN ParseWithClaims(tok, t)
               ELSE IF tok.token_type # "qr" THEN ErrTokenType
               ELSE NoError
    IN  [claims |-> IF err = NoError THEN <<tok>> ELSE <<>>, err |-> err]

(***************************************************************************)
(* middleware: AuthRequired, SwaggerAuthRequired and OptionalAuth over     *)
(* validateAuthToken.  A request is                                        *)
(*   [mw, path, rawQuery, xRequestedWith, accept, cookies, authorization], *)
(* path and rawQuery in chunks, a cookie <<>> or <<token>>, the            *)
(* Authorization header <<>> or <<[scheme, token]>>.                       *)
(***************************************************************************)
StatusTemporaryRedirect == 307
StatusUnauthorized == 401

\* The messages of sendUnauthorizedJSON and the WWW-Authenticate values.
MsgMissing == "Missing or invalid authentication token"
MsgInvalid == "Invalid or expired token"
MsgIdentity == "Invalid user identity in token"
WWWAuthenticateExpired == "Bearer error=\"invalid_token\", error_description=\"token expired\""
WWWAuthenticateInvalid == "Bearer error=\"invalid_token\", error_description=\"invalid token\""

\* redirectLoginPath, and the text "?redirect=".
redirectLoginPath == <<"/", "auth", "/", "login-page">>
redirectParam == <<"?", "redirect", "=">>

\* strings.HasPrefix on chunks.
PathHasPrefix(path, prefix) ==
    Len(path) >= Len(prefix) /\ SubSeq(path, 1, Len(prefix)) = prefix

\* strings.ToLower of the scheme of an Authorization header.
ToLower(scheme) ==
    CASE scheme = "Bearer" -> "bearer" [] scheme = "BEARER" -> "bearer"
      [] OTHER -> scheme

\* url.QueryEscape, chunk by chunk: letters, digits, '-', '_', '.' and '~'
\* stay, a space becomes '+', every other byte is percent-encoded.
EscapeChunk(ch) ==
    CASE ch = "/" -> "%2F" [] ch = "?" -> "%3F" [] ch = "=" -> "%3D"
      [] ch = "&" -> "%26" [] ch = " " -> "+" [] ch = "+" -> "%2B"
      [] OTHER -> ch
QueryEscape(str) == [i \in 1..Len(str) |-> EscapeChunk(str[i])]

\* A new gin.Context: nothing written, no keys, not aborted.  handlerRan
\* tells whether the handler behind the middleware was run.
NoKeys == [userID |-> "", claims |-> <<>>, token |-> <<>>, authMethod |-> "",
           userEmail |-> ""]
NewContext ==
    [status |-> 0, location |-> <<>>, message |-> "", wwwAuthenticate |-> "",
     cacheControl |-> "",
     aborted |-> FALSE, keys |-> NoKeys, handlerRan |-> FALSE]

\* c.Abort(), and c.Next(), which runs the handler unless the request is
\* aborted.
AbortContext(c) == [c EXCEPT !.aborted = TRUE]
ContextNext(c) == IF c.aborted THEN c ELSE [c EXCEPT !.handlerRan = TRUE]

\* Variant: only the path tells an API call.
isAPIRequestByPathOnly(request) == PathHasPrefix(request.path, <<"/", "api", "/">>)

isAPIRequest(request) ==
    \/ PathHasPrefix(request.path, <<"/", "api", "/">>)
    \/ request.xRequestedWith = "XMLHttpRequest"
    \/ \E i \in 1..Len(request.accept) : request.accept[i] = "application/json"

buildEncodedRedirectURL(request) ==
    QueryEscape(IF request.rawQuery # <<>>
                THEN request.path \o <<"?">> \o request.rawQuery
                ELSE request.path)

\* c.Redirect(http.StatusTemporaryRedirect, loginPath + "?redirect=" + ...)
\* and c.Abort().
RedirectToLogin(c, request, loginPath) ==
    AbortContext([c EXCEPT !.status = StatusTemporaryRedirect,
                           !.location = loginPath \o redirectParam
                                        \o buildEncodedRedirectURL(request)])

sendUnauthorizedJSON(c, message) ==
    AbortContext([c EXCEPT !.status = StatusUnauthorized, !.message = message])

\* The end of a failed validation: redirect or 401.
FailAuth(c, request, config, message) ==
    IF config.allowRedirects /\ ~isAPIRequest(request)
    THEN RedirectToLogin(c, request, config.redirectLoginPath)
    ELSE sendUnauthorizedJSON(c, message)

\* The Authorization header carries a bearer token.
HasBearer(request) ==
    /\ request.authorization # <<>>
    /\ ToLower(request.authorization[1].scheme) = "bearer"

\* strings.TrimSpace(authHeader[len("Bearer "):]): the token of the header
\* without the spaces around it.
BearerValue(header) == header.token

\* Variant: the header is looked at before the cookie.
TokenOfHeaderFirst(request, config) ==
    IF HasBearer(request) THEN <<BearerValue(request.authorization[1])>>
    ELSE IF request.cookies[config.cookieName] # <<>>
    THEN request.cookies[config.cookieName]
    ELSE <<>>

\* The token validateAuthToken takes: the cookie's, else the header's;
\* <<>> if there is none.
TokenOf(request, config) ==
    IF request.cookies[config.cookieName] # <<>>
    THEN request.cookies[config.cookieName]
    ELSE IF HasBearer(request) THEN <<BearerValue(request.authorization[1])>>
    ELSE <<>>

\* validateAuthToken: [ok, c].
validateAuthToken(c, request, config, t) ==
    LET found  == TokenOf(request, config)
        parsed == ValidateToken(found[1], t)
    IN  IF found = <<>>
        THEN [ok |-> FALSE, c |-> FailAuth(c, request, config, MsgMissing)]
        ELSE IF parsed.err # NoError
        THEN [ok |-> FALSE,
              c |-> FailAuth([c EXCEPT !.wwwAuthenticate =
                                 IF parsed.err = ErrTokenExpired
                                 THEN WWWAuthenticateExpired
                                 ELSE WWWAuthenticateInvalid],
                             request, config, MsgInvalid)]
        ELSE IF ~uuidParses(parsed.claims[1].user_id)
        THEN [ok |-> FALSE, c |-> FailAuth(c, request, config, MsgIdentity)]
        ELSE [ok |-> TRUE,
              c |-> [c EXCEPT !.keys.token = IF config.storeTokenInCtx THEN found
                                             ELSE @,
                              !.keys.claims = parsed.claims,
                              !.keys.userID = parsed.claims[1].user_id]]

authConfig(cookieName, storeTokenInCtx, allowRedirects) ==
    [cookieName |-> cookieName, storeTokenInCtx |-> storeTokenInCtx,
     allowRedirects |-> allowRedirects, redirectLoginPath |-> redirectLoginPath]

\* The context after AuthRequired's handler function returned.
AuthRequired(request, t) ==
    IF PathHasPrefix(request.path, <<"/", "swagger">>)
    THEN RedirectToLogin(NewContext, request, redirectLoginPath)
    ELSE LET v == validateAuthToken(NewContext, request,
                                    authConfig("auth_token", FALSE, FALSE), t)
         IN  IF ~v.ok THEN v.c ELSE ContextNext(v.c)

SwaggerAuthRequired(request, t) ==
    LET v == validateAuthToken(NewContext, request,
                               authConfig("swagger_auth_token", TRUE, TRUE), t)
    IN  IF ~v.ok THEN v.c ELSE ContextNext(v.c)

OptionalAuth(request, t) ==
    LET qr == ValidateQRToken(BearerValue(request.authorization[1]), t)
        v  == validateAuthToken(NewContext, request,
                                authConfig("auth_token", FALSE, FALSE), t)
    IN  IF HasBearer(request) /\ qr.err = NoError /\ uuidParses(qr.claims[1].user_id)
        THEN ContextNext([NewContext EXCEPT !.keys.userID = qr.claims[1].user_id,
                                            !.keys.userEmail = qr.claims[1].email,
                                            !.keys.authMethod = "qr_token"])
        ELSE ContextNext(IF v.ok THEN [v.c EXCEPT !.keys.authMethod = "cookie"]
                         ELSE v.c)

\* The middleware of a route, run on a request.
RunMiddleware(request, t) ==
    CASE request.mw = "AuthRequired"        -> AuthRequired(request, t)
      [] request.mw = "SwaggerAuthRequired" -> SwaggerAuthRequired(request, t)
      [] request.mw = "OptionalAuth"        -> OptionalAuth(request, t)

\* The routes of the three middlewares that the modelled client calls.
Routes ==
    {[mw |-> "AuthRequired", path |-> <<"/", "api", "/", "urls">>],
     [mw |-> "AuthRequired", path |-> <<"/", "auth", "/", "me">>],
     [mw |-> "SwaggerAuthRequired", path |-> <<"/", "swagger", "/", "index.html">>],
     [mw |-> "SwaggerAuthRequired", path |-> <<"/", "api", "/", "swagger-token">>],
     [mw |-> "OptionalAuth",
      path |-> <<"/", "api", "/", "urls", "/", CodeSeq[1], "/", "qr">>],
     [mw |-> "OptionalAuth",
      path |-> <<"/", "api", "/", "urls", "/", CodeSeq[2], "/", "qr">>]}

\* The query strings and the header pairs (X-Requested-With, Accept) the
\* client sends.
RawQueries == {<<>>, <<"urls.primaryName", "=", "v1", "&", "deep", "=", "1">>}
HeaderPairs ==
    {<<"", <<"text/html">>>>,
     <<"XMLHttpRequest", <<"text/html">>>>,
     <<"xmlhttprequest", <<"*/*">>>>,
     <<"", <<"text/html", ",", "application/json">>>>}

\* Tokens the client got from the server earlier: a QR token, and a
\* session token that has expired since.
EarlierTokens ==
    {GenerateQRToken(UserID, UserEmail, CodeSeq[1], StartTime),
     GenerateToken(UserID, UserEmail, StartTime - 60 * jwtExpiryHours - 1)}

\* Tokens made elsewhere: not a token at all; unsigned; signed with
\* another key, fresh and expired; and signed with the server's key by
\* another issuer that puts no identifier into user_id.
OtherTokens ==
    {[GenerateToken("", "", StartTime) EXCEPT !.sig = "malformed"],
     [GenerateToken(UserID, UserEmail, StartTime) EXCEPT !.alg = "none", !.sig = ""],
     [GenerateToken(UserID, UserEmail, StartTime + 600) EXCEPT !.sig = "other"],
     [GenerateToken(UserID, UserEmail, StartTime - 600) EXCEPT !.sig = "other"],
     [GenerateToken("admin", UserEmail, StartTime + 600) EXCEPT !.nbf = StartTime]}

\* The client's cookie jar.
NoCookies == [auth_token |-> <<>>, swagger_auth_token |-> <<>>]

\* The tokens the client can send: those of its cookies and the others.
KnownTokens(jar) ==
    {jar[name][1] : name \in {n \in DOMAIN jar : jar[n] # <<>>}}
        \cup EarlierTokens \cup OtherTokens

\* The Authorization headers the client can send.
Authorizations(jar) ==
    {<<>>, <<[scheme |-> "Basic", spaces |-> 0,
              token |-> CHOOSE tok \in OtherTokens : tok.sig = "malformed"]>>}
        \cup {<<[scheme |-> "Bearer", spaces |-> 0, token |-> tok]>> : tok \in KnownTokens(jar)}
        \cup {<<[scheme |-> "bearer", spaces |-> 1, token |-> tok]>> : tok \in EarlierTokens}

\* No request under way.
IdleRequest == [pc |-> "idle"]

\* POST /auth/login with good credentials: the handler sets the cookie of
\* the surface the login came from.
Login(isSwaggerLogin) ==
    /\ areq.pc = "idle"
    /\ client' = [client EXCEPT ![IF isSwaggerLogin THEN "swagger_auth_token"
                                  ELSE "auth_token"] =
                     <<GenerateToken(UserID, UserEmail, now)>>]
    /\ client' # client
    /\ UNCHANGED <<now, rl, call, hist, sup, areq>>
    /\ UNCHANGED appVars

\* POST /auth/logout and POST /auth/swagger-logout: the cookie is cleared.
Logout(isSwaggerLogout) ==
    /\ areq.pc = "idle"
    /\ client' = [client EXCEPT ![IF isSwaggerLogout THEN "swagger_auth_token"
                                  ELSE "auth_token"] = <<>>]
    /\ client' # client
    /\ UNCHANGED <<now, rl, call, hist, sup, areq>>
    /\ UNCHANGED appVars

\* The client sends a request to a route behind one of the middlewares,
\* with the cookie the middleware reads taken from its jar, left out or
\* set to another token, and the middleware runs.
SendRequest ==
    /\ areq.pc = "idle"
    /\ \E route \in Routes, rawQuery \in RawQueries, hp \in HeaderPairs,
          cookie \in {<<>>} \cup {<<tok>> : tok \in KnownTokens(client)},
          authorization \in Authorizations(client) :
         LET name == IF route.mw = "SwaggerAuthRequired" THEN "swagger_auth_token"
                     ELSE "auth_token"
             request == [mw |-> route.mw, path |-> route.path, rawQuery |-> rawQuery,
                         xRequestedWith |-> hp[1], accept |-> hp[2],
                         cookies |-> [client EXCEPT ![name] = cookie],
                         authorization |-> authorization]
         IN  areq' = [pc |-> "answered", request |-> request, at |-> now,
                      c |-> RunMiddleware(request, now)]
    /\ UNCHANGED <<now, rl, call, hist, sup, client>>
    /\ UNCHANGED appVars

\* The response has reached the client.
ReceiveResponse ==
    /\ areq.pc = "answered"
    /\ areq' = IdleRequest
    /\ UNCHANGED <<now, rl, call, hist, sup, client>>
    /\ UNCHANGED appVars

(***************************************************************************)
(* The clock                                                               *)
(***************************************************************************)
Tick ==
    /\ \E t \in Instants : t > now /\ now' = t
    /\ UNCHANGED <<urls, visits, nextID, rowLock, req, op, cr>>
    /\ UNCHANGED mwVars

(***************************************************************************)
(* Initial states                                                          *)
(***************************************************************************)
\* The links of the first k codes, as GenerateShortCode created them for
\* user u1 at StartTime with the preset "1hour".
SeedLinks(k) ==
    {[NewURLRecord(CodeSeq[i], SeedURL, "u1", StartTime,
                   CalculateExpiration("1hour", <<>>, StartTime).at)
        EXCEPT !.ID = i] : i \in 1..k}

\* The link service on a table that holds links, with nothing in progress.
InitService(links) ==
    /\ urls = links
    /\ visits = {}
    /\ nextID = Cardinality(links) + 1
    /\ rowLock = <<>>
    /\ req = [r \in Reqs |-> IdleReq]
    /\ op = [o \in Ops |-> IdleOp]
    /\ cr = [c \in Creators |-> IdleCreator]

\* The limiter as the package initialises it, and nobody calling it.
InitRateLimiter ==
    /\ rl = NewRateLimiter
    /\ call = [c \in Callers |-> IdleCaller]
    /\ hist = NoCalls

InitWith(links) ==
    /\ InitService(links)
    /\ now = StartTime
    /\ InitRateLimiter
    /\ sup = [s \in Supports |-> IdleSupport]
    /\ client = NoCookies
    /\ areq = IdleRequest
    /\ calc = NoCalculation

\* The address that made requests earlier.
LimitedIP == "198.51.100.1"

\* The limiter after k requests of address ip were accepted at StartTime.
AcceptedEarlier(ip, k) ==
    /\ rl = [requests |-> IF k = 0 THEN <<>> ELSE (ip :> [i \in 1..k |-> StartTime]),
             mu |-> <<>>]
    /\ hist = [jp \in ClientIPs |->
                 IF jp = ip THEN [i \in 1..k |-> [at |-> StartTime, ok |-> TRUE]]
                 ELSE <<>>]

(***************************************************************************)
(* SpecSupport: concurrent requests to POST /api/support from two client   *)
(* addresses, one of which has used none, all but one or all of its        *)
(* requests of the current window.                                         *)
(***************************************************************************)
InitSupport ==
    /\ InitService({})
    /\ now = StartTime
    /\ \E k \in {0, maxReqs - 1, maxReqs} : AcceptedEarlier(LimitedIP, k)
    /\ call = [c \in Callers |-> IdleCaller]
    /\ sup = [s \in Supports |-> IdleSupport]
    /\ client = NoCookies
    /\ areq = IdleRequest
    /\ calc = NoCalculation

NextSupport ==
    \/ \E s \in Supports : RateLimitEnter(s)
    \/ \E s \in Supports : RateLimitDecide(s)
    \/ \E s \in Supports : HandlerNextRead(s)
    \/ \E s \in Supports : HandlerNextWrite(s)
    \/ \E s \in Supports : HandlerWrite(s)
    \/ \E s \in Supports : HandlerClose(s)
    \/ \E s \in Supports : ContextDone(s)
    \/ \E s \in Supports : SelectFinished(s)
    \/ \E s \in Supports : SelectDone(s)
    \/ \E s \in Supports : ServingHandlerWrite(s)

SpecSupport == InitSupport /\ [][NextSupport]_vars

\* The timer of context.WithTimeout fires after the timeout, and the
\* serving goroutine, blocked in the select, is woken when one of its
\* cases is ready.  Nothing is assumed about the handler's goroutine: it
\* may stop anywhere and for ever.
FairSpecSupport ==
    SpecSupport /\ \A s \in Supports :
                      /\ WF_vars(ContextDone(s))
                      /\ WF_vars(SelectFinished(s) \/ SelectDone(s))

(***************************************************************************)
(* SpecAuth: one client that logs in and out on the two surfaces and       *)
(* sends requests through the three middlewares while its tokens age.      *)
(***************************************************************************)
InitAuth == InitWith({})

NextAuth ==
    \/ \E isSwaggerLogin \in BOOLEAN : Login(isSwaggerLogin)
    \/ \E isSwaggerLogout \in BOOLEAN : Logout(isSwaggerLogout)
    \/ SendRequest
    \/ ReceiveResponse
    \/ Tick

SpecAuth == InitAuth /\ [][NextAuth]_vars

(***************************************************************************)
(* SpecLimiter: goroutines calling Allow for two client addresses while    *)
(* the clock runs past the window and the cleanup goroutine sweeps.        *)
(***************************************************************************)
InitLimiter == InitWith({})

NextLimiter ==
    \/ \E c \in Callers : AllowLock(c)
    \/ \E c \in Callers : AllowReturn(c)
    \/ Cleanup
    \/ LimiterTick

SpecLimiter == InitLimiter /\ [][NextLimiter]_vars


(***************************************************************************)
(* SpecCreate: concurrent GenerateShortCode calls on a table that holds    *)
(* none, some or all of the codes that can be drawn.                       *)
(***************************************************************************)
InitCreate == \E k \in 0..Len(CodeSeq) : InitWith(SeedLinks(k))

NextCreate ==
    \/ \E c \in Creators : GenerateStart(c)
    \/ \E c \in Creators : GenerateAttempt(c)
    \/ \E c \in Creators : GenerateCreate(c)

SpecCreate == InitCreate /\ [][NextCreate]_vars

\* The goroutine of a started call is scheduled again and again, and its
\* queries return: a call that can take its next step eventually takes it.
FairSpecCreate ==
    SpecCreate /\ \A c \in Creators : WF_vars(GenerateAttempt(c) \/ GenerateCreate(c))

(***************************************************************************)
(* SpecRedirect: concurrent public requests on one link that is active or  *)
(* was paused by its owner, while the clock runs past the link's expiry.   *)
(***************************************************************************)
\* The seed link, or the seed link after its owner paused it.
InitRedirect ==
    \E status \in {"active", "paused"} :
        InitWith({StatusUpdate(SeedLinks(1), CodeSeq[1], "u1", status, NoError,
                               StartTime).row})

NextRedirect ==
    \/ \E r \in Reqs : RedirectLookup(r)
    \/ \E r \in Reqs : TxCreateVisit(r)
    \/ \E r \in Reqs : TxUpdateClickCount(r)
    \/ \E r \in Reqs : TxCommit(r)
    \/ \E r \in Reqs : TxCrash(r)
    \/ Tick

SpecRedirect == InitRedirect /\ [][NextRedirect]_vars
(***************************************************************************)
(* SpecExpiration: CalculateExpiration called with presets, custom         *)
(* specifications and reference times, one call after another.             *)
(***************************************************************************)
InitExpiration ==
    /\ InitService({})
    /\ now = StartTime
    /\ InitRateLimiter
    /\ sup = [s \in Supports |-> IdleSupport]
    /\ client = NoCookies
    /\ areq = IdleRequest
    /\ \E preset \in Presets, customExp \in CustomExpirations, createdAt \in Instants :
         calc = Called(preset, customExp, createdAt)

\* The call returns what CalculateExpiration computes from its parameters.
CalculateExpirationReturn ==
    /\ calc.pc = "called"
    /\ calc' = [calc EXCEPT !.pc = "returned",
                            !.result = CalculateExpiration(calc.preset, calc.customExp,
                                                           calc.createdAt)]
    /\ UNCHANGED <<urls, visits, nextID, rowLock, now, req, op, cr>>
    /\ UNCHANGED <<rl, call, hist, sup, client, areq>>

\* The next call, with parameters of its own.
CalculateExpirationCall ==
    /\ calc.pc = "returned"
    /\ \E preset \in Presets, customExp \in CustomExpirations, createdAt \in Instants :
         calc' = Called(preset, customExp, createdAt)
    /\ UNCHANGED <<urls, visits, nextID, rowLock, now, req, op, cr>>
    /\ UNCHANGED <<rl, call, hist, sup, client, areq>>

NextExpiration ==
    \/ CalculateExpirationReturn
    \/ CalculateExpirationCall

SpecExpiration == InitExpiration /\ [][NextExpiration]_vars

(***************************************************************************)
(* SpecOwner: the operations of the two users on one link of the first,    *)
(* called one after another while the clock runs past the link's expiry.   *)
(***************************************************************************)
\* The seed link after one recorded visit.
InitOwner ==
    /\ urls = {[u EXCEPT !.ClickCount = 1] : u \in SeedLinks(1)}
    /\ visits = {[ID |-> 1, URLID |-> 1, IPAddress |-> "203.0.113.7",
                  UserAgent |-> "curl/8"]}
    /\ nextID = 2
    /\ rowLock = <<>>
    /\ req = [r \in Reqs |-> IdleReq]
    /\ op = [o \in Ops |-> IdleOp]
    /\ cr = [c \in Creators |-> IdleCreator]
    /\ now = StartTime
    /\ InitRateLimiter
    /\ sup = [s \in Supports |-> IdleSupport]
    /\ client = NoCookies
    /\ areq = IdleRequest
    /\ calc = NoCalculation

\* No operation is in progress.
NoneInProgress == \A o \in Ops : op[o].pc = "idle"

NextOwner ==
    \/ \E o \in Ops : NoneInProgress /\ DeleteURLRead(o)
    \/ \E o \in Ops : OwnerDelete(o)
    \/ \E o \in Ops : NoneInProgress /\ UpdateURLStatusRead(o)
    \/ \E o \in Ops : NoneInProgress /\ UpdateURLRead(o)
    \/ \E o \in Ops : NoneInProgress /\ GenerateQRCodeRead(o)
    \/ \E o \in Ops : NoneInProgress /\ GetQRCodeRead(o)
    \/ \E o \in Ops : GetQRCodeGenerate(o)
    \/ \E o \in Ops : OwnerSave(o)
    \/ \E o \in Ops : OwnerReturn(o)
    \/ Tick

SpecOwner == InitOwner /\ [][NextOwner]_vars

(***************************************************************************)
(* Spec: the public requests together with the owner's operations.         *)
(***************************************************************************)
Init == InitWith(SeedLinks(1))

Next ==
    \/ \E r \in Reqs : RedirectLookup(r)
    \/ \E r \in Reqs : TxCreateVisit(r)
    \/ \E r \in Reqs : TxUpdateClickCount(r)
    \/ \E r \in Reqs : TxCommit(r)
    \/ \E r \in Reqs : TxCrash(r)
    \/ \E o \in Ops : UpdateURLStatusRead(o)
    \/ \E o \in Ops : UpdateURLRead(o)
    \/ \E o \in Ops : GenerateQRCodeRead(o)
    \/ \E o \in Ops : OwnerSave(o)
    \/ Tick

Spec == Init /\ [][Next]_vars

(***************************************************************************)
(* Properties of visit recording (SpecRedirect, except where noted)        *)
(***************************************************************************)
\* The committed row of urls with this id after a step that keeps the row.
RowByID(tbl, id) == CHOOSE u \in tbl : u.ID = id

\* The requests whose RecordVisitAndIncrement returned nil for this link.
RecordedFor(id) == {r \in Reqs : req[r].recorded /\ req[r].urlRecord.ID = id}

\* C1: RecordVisitAndIncrement is all-or-nothing.  Every step of the system,
\* whether a statement of the transaction, its commit, its rollback after a
\* failed insert or update, or a crash inside it, changes the committed
\* visit rows of a link and the link's committed click counter by the same
\* amount: a visit row never becomes visible without its increment, nor an
\* increment without its visit row.
RecordVisitAllOrNothing ==
    [][\A u \in urls :
         /\ \E w \in urls' : w.ID = u.ID
         /\ RowByID(urls', u.ID).ClickCount - u.ClickCount
              = Cardinality(VisitsOf(visits', u.ID)) - Cardinality(VisitsOf(visits, u.ID))
         /\ \A r \in Reqs :
              (req'[r].pc \in {"crashed", "done"} /\ ~req'[r].recorded)
                  => VisitOf(r) \notin visits']_vars

\* One call was committed while another one crashed inside its transaction
\* and a third outcome, a failed call, may have happened as well.
RecordVisitAllOrNothingWitness ==
    \E r1, r2 \in Reqs :
        /\ req[r1].recorded /\ VisitOf(r1) \in visits
        /\ req[r2].pc = "crashed"
        /\ RowByID(urls, req[r1].urlRecord.ID).ClickCount = 1

\* C2: N concurrent calls for one link that all succeed leave exactly N
\* visit rows and a counter that is exactly N higher (the counter starts at
\* 0): at every moment the counter and the number of visit rows both equal
\* the number of calls that have succeeded so far, so no increment is lost
\* in any interleaving.
ConcurrentVisitsAllCounted ==
    \A u \in urls :
        /\ u.ClickCount = Cardinality(RecordedFor(u.ID))
        /\ Cardinality(VisitsOf(visits, u.ID)) = Cardinality(RecordedFor(u.ID))

\* All NumReqs requests were GETs whose recording succeeded.
ConcurrentVisitsAllCountedWitness ==
    /\ \A r \in Reqs : req[r].recorded
    /\ \E u \in urls : u.ClickCount = NumReqs /\ Cardinality(VisitsOf(visits, u.ID)) = NumReqs

\* C3: under any interleaving of RecordVisitAndIncrement with the owner's
\* UpdateURLStatus, UpdateURL and GenerateQRCode (Spec), the stored click
\* counter never decreases and always equals the number of the link's visit
\* rows.
ClickCountMonotoneAndReconciled ==
    [][\A u \in urls : \A w \in urls' :
         w.ID = u.ID =>
           /\ w.ClickCount >= u.ClickCount
           /\ w.ClickCount = Cardinality(VisitsOf(visits', w.ID))]_vars

(***************************************************************************)
(* Properties of the public redirect endpoint (SpecRedirect)               *)
(***************************************************************************)
\* Request r is answered, or moves on, in this step.
Arrives(r) == req[r].pc = "idle" /\ req'[r].pc # "idle"

\* Request r's RecordVisitAndIncrement returns nil in this step.
Records(r) == ~req[r].recorded /\ req'[r].recorded

\* The committed row the code of the arriving request r names, if any.
RowsNamedBy(r) == {u \in urls : u.ShortCode = req'[r].code}

\* C4: a HEAD request never invokes visit recording.  The step that serves
\* a HEAD request answers it at once and leaves the visit rows and the
\* click counters as they are, and a HEAD request is never counted as
\* recorded; the step in which a GET request's recording succeeds raises
\* the link's visit rows and its click counter by exactly one each.
HeadNeverRecordsGetRecordsOnce ==
    [][\A r \in Reqs :
         /\ (Arrives(r) /\ req'[r].method = "HEAD")
              => /\ req'[r].pc = "done" /\ ~req'[r].recorded
                 /\ urls' = urls /\ visits' = visits
         /\ Records(r)
              => /\ req[r].method = "GET"
                 /\ RowByID(urls', req[r].urlRecord.ID).ClickCount
                      = RowByID(urls, req[r].urlRecord.ID).ClickCount + 1
                 /\ Cardinality(VisitsOf(visits', req[r].urlRecord.ID))
                      = Cardinality(VisitsOf(visits, req[r].urlRecord.ID)) + 1]_vars

\* A HEAD probe of the active, unexpired link was answered 200 with nothing
\* recorded, and a GET that followed it was recorded: one visit, counter 1.
HeadNeverRecordsGetRecordsOnceWitness ==
    \E r1, r2 \in Reqs :
        /\ r1 < r2
        /\ req[r1].method = "HEAD" /\ req[r1].status = StatusOK
        /\ req[r1].location = SeedURL
        /\ req[r2].method = "GET" /\ req[r2].recorded
        /\ Cardinality(visits) = 1
        /\ \A u \in urls : u.ClickCount = 1

\* C5: a GET on an existing, active, unexpired link (a request that passed
\* the handler's checks) is answered 302 with the stored destination whether
\* RecordVisitAndIncrement succeeded or failed; after a failure neither a
\* visit row of the request is stored nor is the counter above the number of
\* recorded visits.
RedirectSurvivesRecordingFailure ==
    \A r \in Reqs :
        (req[r].pc = "done" /\ req[r].urlRecord # Unresolved)
            => /\ req[r].method = "GET"
               /\ req[r].status = StatusFound
               /\ \E u \in urls : u.ID = req[r].urlRecord.ID
                                   /\ req[r].location = u.OriginalURL
               /\ ~req[r].recorded
                    => /\ VisitOf(r) \notin visits
                       /\ \A u \in urls : u.ClickCount = Cardinality(RecordedFor(u.ID))

\* A GET whose recording failed was redirected all the same, and left
\* nothing behind, next to a GET whose recording succeeded.
RedirectSurvivesRecordingFailureWitness ==
    \E r1, r2 \in Reqs :
        /\ req[r1].pc = "done" /\ req[r1].urlRecord # Unresolved
        /\ ~req[r1].recorded /\ req[r1].status = StatusFound
        /\ req[r1].location = SeedURL
        /\ req[r2].recorded /\ req[r2].status = StatusFound
        /\ Cardinality(visits) = 1

\* C6: the endpoint's answers.  For a request with a non-empty code whose
\* lookup did not fail with a database error: 404 when the code is reserved
\* or names no link; otherwise 410, for GET and for HEAD, when the link is
\* paused or its expiry is at or before now; otherwise the link is served
\* (HEAD: 200 at once, GET: on to recording and the 302).  A 404 or 410
\* answer comes with no change to visit rows or counters, and 302 is only
\* ever answered to a GET that found an active, unexpired link.
RedirectStatusCodes ==
    [][\A r \in Reqs :
         /\ (Arrives(r) /\ req'[r].code # ""
                        /\ req'[r].status # StatusInternalServerError)
              => IF req'[r].code \in reservedPaths \/ RowsNamedBy(r) = {}
                 THEN req'[r].status = StatusNotFound
                 ELSE \A u \in RowsNamedBy(r) :
                        IF u.Status = StatusPaused
                           \/ (u.ExpiresAt # <<>> /\ u.ExpiresAt[1] <= now)
                        THEN req'[r].status = StatusGone
                        ELSE IF req'[r].method = "GET"
                        THEN req'[r].pc = "begin" /\ req'[r].urlRecord = Resolved(u)
                        ELSE req'[r].status = StatusOK
         /\ (Arrives(r) /\ req'[r].status \in {StatusNotFound, StatusGone})
              => /\ req'[r].pc = "done" /\ ~req'[r].recorded
                 /\ urls' = urls /\ visits' = visits
         /\ (req'[r].status = StatusFound /\ req[r].status # StatusFound)
              => /\ req[r].pc \in {"begin", "inserted", "updated"}
                 /\ req[r].method = "GET"]_vars

\* A request that arrived at the very instant of the active link's expiry
\* was answered 410 and one that named an unknown code 404; nothing was
\* recorded.
RedirectStatusCodesWitness ==
    \E r1, r2 \in Reqs :
        /\ req[r1].status = StatusGone /\ req[r1].code = CodeSeq[1]
        /\ \E u \in urls : /\ u.ShortCode = CodeSeq[1] /\ u.Status = StatusActive
                           /\ u.ExpiresAt = <<now>>
        /\ req[r2].status = StatusNotFound /\ req[r2].code = CodeSeq[2]
        /\ visits = {}

(***************************************************************************)
(* Properties of GenerateShortCode (SpecCreate)                            *)
(***************************************************************************)
\* The calls that returned a link.
Succeeded == {c \in Creators : cr[c].pc = "done" /\ cr[c].result # <<>>}

\* Call c returns in this step.
Returns(c) == cr[c].pc # "done" /\ cr'[c].pc = "done"

\* The number of codes call c has generated when it returns in this step:
\* a step of the loop generates one more.
DrawsAtReturn(c) == cr[c].draws + (IF cr[c].pc = "loop" THEN 1 ELSE 0)

\* C7: no two stored links have the same code, and no two successful
\* GenerateShortCode calls returned the same code, also when concurrent
\* calls drew the same code and both passed the existence check.
ShortCodesUnique ==
    /\ \A u, w \in urls : u.ShortCode = w.ShortCode => u = w
    /\ \A c, d \in Succeeded :
         cr[c].result[1].ShortCode = cr[d].result[1].ShortCode => c = d
    /\ \A c \in Succeeded : cr[c].result[1] \in urls

\* Two concurrent calls drew the same code and both found it free: one
\* stored its link, the other was rejected by the unique index.
ShortCodesUniqueWitness ==
    \E c, d \in Creators :
        /\ c \in Succeeded
        /\ cr[d].pc = "done" /\ cr[d].err = ErrDuplicatedKey
        /\ cr[c].result[1].ShortCode = CodeSeq[1] /\ urls = {cr[c].result[1]}

\* C8: when the insert of a newly generated code fails with a uniqueness
\* violation, GenerateShortCode regenerates a code and retries instead of
\* failing: no call returns the unique index's error.
UniqueViolationIsRetried ==
    \A c \in Creators : cr[c].pc = "done" => cr[c].err # ErrDuplicatedKey

\* C9: GenerateShortCode always terminates (FairSpecCreate: a call that
\* can take a step eventually takes one, and then every call in the loop
\* eventually returns).  It generates at most maxAttempts codes; while
\* every generated code collides, the number of the attempt equals the
\* number of codes drawn and stays below maxAttempts; the call that gives
\* up has drawn exactly maxAttempts codes and returns no link together
\* with the exhaustion error, and its last step stores nothing.
AttemptsBoundedThenExhausted ==
    [][\A c \in Creators :
         /\ cr'[c].draws <= maxAttempts
         /\ Returns(c) => DrawsAtReturn(c) <= maxAttempts
         /\ cr'[c].pc = "loop"
              => cr'[c].attempt = cr'[c].draws /\ cr'[c].attempt < maxAttempts
         /\ (Returns(c) /\ cr'[c].err = ErrMaxAttempts)
              => /\ DrawsAtReturn(c) = maxAttempts
                 /\ cr[c].attempt = maxAttempts - 1
                 /\ cr'[c].result = <<>>
                 /\ urls' = urls /\ nextID' = nextID]_vars
    /\ \A c \in Creators : (cr[c].pc = "loop") ~> (cr[c].pc = "done")

\* Every code is taken and a call gave up after maxAttempts collisions.
AttemptsBoundedThenExhaustedWitness ==
    /\ \A code \in Codes : \E u \in urls : u.ShortCode = code
    /\ \E c \in Creators :
         /\ cr[c].pc = "done" /\ cr[c].err = ErrMaxAttempts /\ cr[c].result = <<>>

\* C10: a persistence error other than "not found" on the existence check
\* and other than a uniqueness violation ends the call at once with that
\* error: a call whose last query returned such an error is done, returns
\* that error and no link; the step in which it returns stores nothing.
PersistenceErrorAborts ==
    [][\A c \in Creators :
         /\ cr'[c].err \notin {NoError, ErrRecordNotFound, ErrDuplicatedKey,
                               ErrMaxAttempts, ErrInvalidPreset}
              => /\ cr'[c].pc = "done"
                 /\ cr'[c].err = ErrDatabase
                 /\ cr'[c].result = <<>>
         /\ (Returns(c) /\ cr'[c].err = ErrDatabase)
              => /\ urls' = urls /\ nextID' = nextID
                 /\ DrawsAtReturn(c) <= cr[c].attempt + 1
         /\ (cr[c].pc = "done") => cr'[c] = cr[c]]_vars

\* Database errors ended two concurrent calls, at the existence check or at
\* the insert; no link was stored and no id was drawn from the sequence.
PersistenceErrorAbortsWitness ==
    \E c, d \in Creators :
        /\ c # d
        /\ cr[c].pc = "done" /\ cr[c].err = ErrDatabase
        /\ cr[d].pc = "done" /\ cr[d].err = ErrDatabase
        /\ urls = {} /\ nextID = 1

(***************************************************************************)
(* The rate limiter                                                        *)
(***************************************************************************)
\* The calls of hist[ip] that returned true at an instant in (t - window, t].
AcceptedInWindow(ip, t) ==
    {i \in 1..Len(hist[ip]) :
        hist[ip][i].ok /\ hist[ip][i].at > t - window /\ hist[ip][i].at <= t}

\* The calls number i..j of an address all fall into one window.
WithinOneWindow(ip, i, j) == hist[ip][j].at - hist[ip][i].at < window

\* C11: for every client address and every instant, at most maxReqs of the
\* calls made in the window that ends at that instant returned true; and of
\* maxReqs + 1 consecutive calls of one address that fall into one window,
\* none of them accepted before, exactly maxReqs returned true.
AtMostMaxReqsPerWindow ==
    \A ip \in ClientIPs :
        /\ \A t \in LimiterInstants : Cardinality(AcceptedInWindow(ip, t)) <= maxReqs
        /\ Len(hist[ip]) >= maxReqs + 1 /\ WithinOneWindow(ip, 1, maxReqs + 1)
             => Cardinality({i \in 1..(maxReqs + 1) : hist[ip][i].ok}) = maxReqs

\* An address made maxReqs + 1 calls in one window: the first maxReqs were
\* accepted and the last one was rejected.
AtMostMaxReqsPerWindowWitness ==
    \E ip \in ClientIPs :
        /\ Len(hist[ip]) >= maxReqs + 1
        /\ WithinOneWindow(ip, 1, maxReqs + 1)
        /\ \A i \in 1..maxReqs : hist[ip][i].ok
        /\ ~hist[ip][maxReqs + 1].ok

\* The step is the return of an Allow call of goroutine c.
AllowReturns(c) == call[c].pc = "locked" /\ call'[c].pc = "idle"

\* What the call that returns in this step returned.
Returned(c) == hist'[call[c].ip][Len(hist'[call[c].ip])].ok

\* C12: an Allow call for a key none of whose recorded timestamps is newer
\* than the call's now - window returns true and records the call, whatever
\* the key was answered before and whether or not a sweep has removed the
\* old timestamps.
AllowedAgainAfterWindow ==
    [][\A c \in Callers :
         (/\ AllowReturns(c)
          /\ \A i \in 1..Len(TimesOf(rl.requests, call[c].ip)) :
                TimesOf(rl.requests, call[c].ip)[i] <= call[c].at - window)
           => /\ Returned(c)
              /\ TimesOf(rl'.requests, call[c].ip) = <<call[c].at>>]_vars

\* A key was accepted maxReqs times, then rejected, and accepted again by a
\* call made a window or more after the last of the recorded requests.
AllowedAgainAfterWindowWitness ==
    \E ip \in ClientIPs :
        /\ Len(hist[ip]) = maxReqs + 2
        /\ \A i \in 1..maxReqs : hist[ip][i].ok
        /\ ~hist[ip][maxReqs + 1].ok
        /\ hist[ip][maxReqs + 2].ok
        /\ hist[ip][maxReqs + 2].at >= hist[ip][maxReqs].at + window
        /\ TimesOf(rl.requests, ip) = <<hist[ip][maxReqs + 2].at>>

\* C13: an Allow call that returns false leaves the map as it was: no
\* timestamp is added for its key, and every key keeps the timestamps it
\* had, so that the in-window count of every key is the same after the call
\* as before.
RejectedCallRecordsNothing ==
    [][\A c \in Callers :
         (AllowReturns(c) /\ ~Returned(c))
           => /\ DOMAIN rl'.requests = DOMAIN rl.requests
              /\ \A ip \in ClientIPs :
                    TimesOf(rl'.requests, ip) = TimesOf(rl.requests, ip)]_vars

\* The last call of a key was rejected while the key held maxReqs
\* timestamps and the other key held one; both hold what they held.
RejectedCallRecordsNothingWitness ==
    \E ip, jp \in ClientIPs :
        /\ ip # jp
        /\ hist[ip] # <<>> /\ ~hist[ip][Len(hist[ip])].ok
        /\ Len(TimesOf(rl.requests, ip)) = maxReqs
        /\ Len(TimesOf(rl.requests, jp)) = 1
        /\ \A c \in Callers : call[c].pc = "idle"

(***************************************************************************)
(* POST /api/support                                                       *)
(***************************************************************************)
\* How often handler h was run for a request.
TimesEntered(me, h) == Cardinality({i \in 1..Len(me.entered) : me.entered[i] = h})

\* C14: a request that Allow rejected is answered with 429 and nothing
\* else, is aborted and has ended: neither RequestTimeout nor SubmitSupport
\* was run for it, no goroutine was started for it, it does not call Allow
\* again and nothing about it changes any more. A request that Allow
\* accepted is not answered with 429, and for as long as it is in flight
\* RateLimit has passed it to RequestTimeout exactly once.
RejectedIsAbortedAllowedPassesOnce ==
    /\ [](\A s \in Supports :
            /\ sup[s].allowed = "false"
                 => /\ sup[s].written = <<StatusTooManyRequests>>
                    /\ IsAborted(sup[s].index)
                    /\ sup[s].entered = <<"RateLimit">>
                    /\ sup[s].pc = "ended" /\ sup[s].hpc = "none"
                    /\ call[s] = IdleCaller
            /\ (sup[s].allowed = "true" /\ InFlight(sup[s]))
                 => /\ TimesEntered(sup[s], "RateLimit") = 1
                    /\ TimesEntered(sup[s], "RequestTimeout") = 1
                    /\ \A i \in 1..Len(sup[s].written) :
                          sup[s].written[i] # StatusTooManyRequests)
    /\ [][\A s \in Supports :
            sup[s].allowed = "false" => sup'[s] = sup[s] /\ call'[s] = call[s]]_vars

\* An address had used all requests of its window: its next request was
\* rejected with 429, and the request of another address that came after
\* it went through RequestTimeout and was answered by SubmitSupport.
RejectedIsAbortedAllowedPassesOnceWitness ==
    \E s, t \in Supports :
        /\ sup[s].ip # sup[t].ip
        /\ sup[s].allowed = "false" /\ sup[s].written = <<StatusTooManyRequests>>
        /\ sup[t].allowed = "true" /\ sup[t].pc = "select" /\ sup[t].finished
        /\ sup[t].entered = supportChain
        /\ sup[t].written = <<StatusOK>>

\* C15: a request that passes through RequestTimeout gets at most one
\* body written to its response, and when the 504 is written it is the
\* only one. (Violated.)
TimeoutWritesOneResponse ==
    \A s \in Supports :
        /\ Len(sup[s].written) <= 1
        /\ (\E i \in 1..Len(sup[s].written) : sup[s].written[i] = StatusGatewayTimeout)
             => sup[s].written = <<StatusGatewayTimeout>>

(***************************************************************************)
(* The authentication middlewares                                          *)
(***************************************************************************)
\* The last request was answered by the named middleware.
AnsweredBy(mws) == areq.pc = "answered" /\ areq.request.mw \in mws
Gateways == {"AuthRequired", "SwaggerAuthRequired"}

\* The cookie the middleware of the request reads, as the request has it.
CookieSent ==
    IF areq.request.mw = "SwaggerAuthRequired"
    THEN areq.request.cookies.swagger_auth_token
    ELSE areq.request.cookies.auth_token

\* The request carries a bearer token in its Authorization header.
BearerSent ==
    /\ areq.request.authorization # <<>>
    /\ areq.request.authorization[1].scheme \in {"Bearer", "bearer", "BEARER"}

\* The token the request presents to the gateway, <<>> if none.
Presented ==
    IF CookieSent # <<>> THEN CookieSent
    ELSE IF BearerSent THEN <<areq.request.authorization[1].token>>
    ELSE <<>>

\* The presented token is a token of this server that is inside its
\* validity window when the request is made; it is one that is past it.
Verifies ==
    /\ Presented[1].alg = "HS256" /\ Presented[1].sig = "secret"
    /\ Presented[1].nbf <= areq.at /\ areq.at < Presented[1].exp
PastExpiry ==
    /\ Presented[1].alg = "HS256" /\ Presented[1].sig = "secret"
    /\ areq.at >= Presented[1].exp

\* The request is an API call.
APICall ==
    \/ (Len(areq.request.path) >= 3 /\ areq.request.path[1] = "/"
        /\ areq.request.path[2] = "api" /\ areq.request.path[3] = "/")
    \/ areq.request.xRequestedWith = "XMLHttpRequest"
    \/ \E i \in 1..Len(areq.request.accept) :
          areq.request.accept[i] = "application/json"

\* url.QueryUnescape, chunk by chunk.
UnescapeChunk(ch) ==
    CASE ch = "%2F" -> "/" [] ch = "%3F" -> "?" [] ch = "%3D" -> "="
      [] ch = "%26" -> "&" [] ch = "+" -> " " [] ch = "%2B" -> "+"
      [] OTHER -> ch
QueryUnescape(str) == [i \in 1..Len(str) |-> UnescapeChunk(str[i])]

\* The response is a 307 to /auth/login-page?redirect=v, where v holds
\* none of the characters that end a query value and decodes to the path
\* and query of the request.
RedirectedToLogin ==
    LET loc == areq.c.location
        v   == SubSeq(loc, 8, Len(loc))
    IN  /\ areq.c.status = StatusTemporaryRedirect
        /\ Len(loc) > 7
        /\ SubSeq(loc, 1, 7) = <<"/", "auth", "/", "login-page", "?", "redirect", "=">>
        /\ \A i \in 1..Len(v) : v[i] \notin {"/", "?", "&", "=", " "}
        /\ QueryUnescape(v) =
             IF areq.request.rawQuery = <<>> THEN areq.request.path
             ELSE areq.request.path \o <<"?">> \o areq.request.rawQuery

\* The failure response: the redirect for a browser request to the
\* documentation surface, the 401 otherwise; the request is aborted, the
\* handler is not run and the context holds no identity.
FailureResponse ==
    /\ IF areq.request.mw = "SwaggerAuthRequired" /\ ~APICall
       THEN RedirectedToLogin
       ELSE areq.c.status = StatusUnauthorized /\ areq.c.location = <<>>
    /\ areq.c.aborted /\ ~areq.c.handlerRan
    /\ areq.c.keys.userID = "" /\ areq.c.keys.claims = <<>> /\ areq.c.keys.token = <<>>

\* C16: a request through OptionalAuth is never aborted: its handler is
\* run and the middleware writes no 401. (Violated.)
OptionalAuthNeverAborts ==
    AnsweredBy({"OptionalAuth"})
        => areq.c.handlerRan /\ ~areq.c.aborted /\ areq.c.status # StatusUnauthorized

\* C17: a request to AuthRequired or SwaggerAuthRequired that carries no
\* token (no cookie of the surface, and no Authorization header with a
\* bearer token) gets the failure response: the redirect to the login page
\* with the encoded path and query if redirects are allowed
\* (SwaggerAuthRequired) and the request is no API call, the 401 in every
\* other case; it is aborted and its handler is not run.
MissingTokenRedirectsOrRejects ==
    (AnsweredBy(Gateways) /\ Presented = <<>>)
        => FailureResponse /\ areq.c.wwwAuthenticate = ""

\* Requests without a token: a browser request to the documentation with
\* a query string was redirected, and so was one that only looks like an
\* XHR call.
MissingTokenRedirectsOrRejectsWitness ==
    /\ AnsweredBy({"SwaggerAuthRequired"}) /\ Presented = <<>>
    /\ areq.request.rawQuery # <<>>
    /\ areq.request.xRequestedWith = "xmlhttprequest"
    /\ areq.request.authorization # <<>>
    /\ areq.c.status = StatusTemporaryRedirect

\* C18: a request to AuthRequired or SwaggerAuthRequired whose token
\* fails verification gets the WWW-Authenticate header "token expired" if
\* the token is a token of this server past its expiry, and "invalid
\* token" for every other failure, and then the failure response; a token
\* that verifies gets no such header.
ExpiredTokenIsToldApart ==
    (AnsweredBy(Gateways) /\ Presented # <<>>)
        => IF Verifies THEN areq.c.wwwAuthenticate = ""
           ELSE /\ areq.c.wwwAuthenticate =
                     IF PastExpiry THEN WWWAuthenticateExpired
                     ELSE WWWAuthenticateInvalid
                /\ FailureResponse

\* The token of the client's session was presented at the very instant of
\* its expiry, and was told to be expired.
ExpiredTokenIsToldApartWitness ==
    /\ AnsweredBy(Gateways) /\ Presented # <<>>
    /\ Presented = client.auth_token
    /\ areq.at = Presented[1].exp
    /\ areq.c.wwwAuthenticate = WWWAuthenticateExpired
    /\ areq.c.status = StatusUnauthorized

\* C19: behind AuthRequired and SwaggerAuthRequired the handler runs
\* exactly when the context holds an identity, and the context holds one
\* exactly when the request presented a token that verifies and whose
\* subject is an identifier: then the identity is that subject, the claims
\* are the token's, and the token itself is stored by SwaggerAuthRequired
\* only. A token that verifies but has a corrupt subject gets the failure
\* response.
IdentityStoredIffValidated ==
    AnsweredBy(Gateways)
        => LET valid == Presented # <<>> /\ Verifies /\ Presented[1].user_id \in UUIDs
           IN  /\ areq.c.handlerRan <=> areq.c.keys.userID # ""
               /\ areq.c.keys.userID # "" <=> valid
               /\ valid => /\ areq.c.keys.userID = Presented[1].user_id
                           /\ areq.c.keys.claims = Presented
                           /\ areq.c.keys.token =
                                IF areq.request.mw = "SwaggerAuthRequired"
                                THEN Presented ELSE <<>>
                           /\ ~areq.c.aborted
               /\ ~valid => areq.c.keys.claims = <<>> /\ areq.c.keys.token = <<>>
               /\ (Presented # <<>> /\ Verifies /\ Presented[1].user_id \notin UUIDs)
                    => FailureResponse

\* A token signed with the server's key whose subject is no identifier was
\* presented in the cookie of the documentation surface: the request was
\* redirected to the login page and nothing was stored.
IdentityStoredIffValidatedWitness ==
    /\ AnsweredBy({"SwaggerAuthRequired"})
    /\ CookieSent # <<>> /\ Verifies /\ CookieSent[1].user_id \notin UUIDs
    /\ areq.c.status = StatusTemporaryRedirect
    /\ areq.c.keys = NoKeys

\* C20: the token of a session of one surface opens no endpoint of the
\* other: when a handler behind SwaggerAuthRequired ran on the token of
\* the client's primary session, the client has a session on the
\* documentation surface too, and likewise for AuthRequired and the token
\* of the documentation session. (Violated.)
SurfacesIsolated ==
    (areq.pc = "answered" /\ areq.c.handlerRan)
        => /\ (areq.request.mw = "SwaggerAuthRequired" /\ Presented = client.auth_token)
                => client.swagger_auth_token # <<>>
           /\ (areq.request.mw = "AuthRequired" /\ Presented = client.swagger_auth_token)
                => client.auth_token # <<>>

\* The token in the Authorization header of the request, <<>> if none.
BearerToken == IF BearerSent THEN <<areq.request.authorization[1].token>> ELSE <<>>

\* A token of this server inside its validity window at the request.
GoodAt(tok, t) ==
    tok.alg = "HS256" /\ tok.sig = "secret" /\ tok.nbf <= t /\ t < tok.exp

\* C21: OptionalAuth sets authMethod to qr_token only for a bearer token
\* of this server, inside its validity window, whose type is "qr": a
\* general identity token in that slot, however valid, never makes it
\* qr_token; and a valid QR token whose subject is an identifier does.
QRSlotChecksTokenType ==
    AnsweredBy({"OptionalAuth"})
        => /\ areq.c.keys.authMethod = "qr_token"
                <=> /\ BearerToken # <<>>
                    /\ GoodAt(BearerToken[1], areq.at)
                    /\ BearerToken[1].token_type = "qr"
                    /\ BearerToken[1].user_id \in UUIDs
           /\ (BearerToken # <<>> /\ BearerToken[1].token_type # "qr")
                => areq.c.keys.authMethod # "qr_token"

\* The token of the client's session, valid, was sent as the bearer token
\* to the QR endpoint without a cookie: the request was authenticated, but
\* not as a QR token request.
QRSlotChecksTokenTypeWitness ==
    /\ AnsweredBy({"OptionalAuth"})
    /\ BearerToken # <<>> /\ BearerToken = client.auth_token
    /\ areq.request.cookies.auth_token = <<>>
    /\ GoodAt(BearerToken[1], areq.at)
    /\ areq.c.handlerRan
    /\ areq.c.keys.authMethod = "cookie"

\* GetUserIDFromContext: the handlers take the caller from the userID key.
GetUserIDFromContext(c) ==
    [userID |-> c.keys.userID,
     err |-> IF c.keys.userID = "" THEN "authentication required" ELSE NoError]

\* The link code in the path of a request to the QR endpoint.
CodeParam == areq.request.path[6]

\* C22: a QR token issued for one link code is never accepted as the
\* caller's identity by a handler behind AuthRequired, and the QR endpoint
\* never takes the caller from a QR token issued for another link code.
ScopedTokenOnlyForItsAction ==
    /\ (/\ AnsweredBy({"AuthRequired"})
        /\ areq.c.handlerRan
        /\ GetUserIDFromContext(areq.c).err = NoError)
            => Presented[1].token_type # "qr"
    /\ (/\ AnsweredBy({"OptionalAuth"})
        /\ areq.c.handlerRan
        /\ areq.c.keys.authMethod = "qr_token"
        /\ GetUserIDFromContext(areq.c).err = NoError)
            => BearerToken[1].short_code = CodeParam

\* C23: every request that the authentication middleware ended itself,
\* by a redirect or a 401, carries the cache prevention headers.
FailuresAreNotCacheable ==
    (AnsweredBy({"AuthRequired", "SwaggerAuthRequired", "OptionalAuth"})
        /\ areq.c.aborted /\ areq.c.status \in {StatusUnauthorized, StatusTemporaryRedirect})
        => areq.c.cacheControl # ""

\* Operation o is called in this step; its parameters are op'[o].args.
Starts(o) == op[o].pc = "idle" /\ op'[o].pc # "idle"

\* The call that starts in this step fails with this error, or with the
\* error of the database if the query itself failed.
FailsWith(o, err) == op'[o].pc = "done" /\ op'[o].err \in {err, ErrDatabase}

\* The stored link the call that starts in this step names, if any.
Named(o) == {u \in urls : u.ShortCode = op'[o].args.code}

\* The call that starts in this step passes the checks made before the
\* lookup (UpdateURLStatus validates the status first).
Wellformed(o) ==
    op'[o].kind = "status" => op'[o].args.status \in {StatusActive, StatusPaused}

\* The stored rows with this id: the link, its visits, its QR cache.
LinkState(tbl, vtbl, id) ==
    <<{u \in tbl : u.ID = id}, {v \in vtbl : v.URLID = id}>>

\* C24: an operation called by a user who is not the owner of the link
\* fails with the permission error, one called with an unknown code fails
\* with the not-found error, a failing operation leaves links and visits
\* as they are; a link disappears only in the delete of a DeleteURL call
\* that its owner made, and links and visits change only in the write of
\* an operation called by the owner of the link written.
OnlyOwnerChangesOrRemoves ==
    [][/\ \A o \in Ops : (Starts(o) /\ Wellformed(o)) =>
            /\ (\E u \in Named(o) : u.UserID # op'[o].args.userID)
                    => FailsWith(o, ErrPermissionDenied)
            /\ Named(o) = {} => FailsWith(o, ErrURLNotFound)
       /\ \A o \in Ops : (op[o].pc # "done" /\ op'[o].pc = "done" /\ op'[o].err # NoError)
            => urls' = urls /\ visits' = visits
       /\ \A u \in urls : (\A w \in urls' : w.ID # u.ID) =>
            \E o \in Ops : /\ op[o].pc = "delete" /\ op[o].kind = "delete"
                           /\ op[o].args.code = u.ShortCode
                           /\ op[o].args.userID = u.UserID
       /\ (urls' # urls \/ visits' # visits) =>
            \E o \in Ops : /\ op[o].pc \in {"save", "delete"}
                           /\ op[o].args.userID = op[o].urlRecord.UserID
                           /\ \A id \in 1..nextID : id # op[o].urlRecord.ID =>
                                LinkState(urls', visits', id) = LinkState(urls, visits, id)
      ]_vars

\* The other user called DeleteURL on the link and got the permission
\* error; the link and its visit are still stored.
OnlyOwnerChangesOrRemovesWitness ==
    \E o \in Ops : /\ op[o].pc = "done" /\ op[o].kind = "delete"
                   /\ op[o].err = ErrPermissionDenied
                   /\ \E u \in urls : u.ShortCode = op[o].args.code
                                       /\ u.UserID # op[o].args.userID
                                       /\ VisitsOf(visits, u.ID) # {}

\* The request changes the destination (strings.TrimSpace(req.URL) != "").
ChangesDestination(request) == request.URL \notin {<<>>, <<" ">>}
\* The request changes the expiration.
ChangesExpiration(request) ==
    request.ExpirationPreset # "" \/ request.CustomExpiration # <<>>
\* The request carries one expiration specification, and a valid one: the
\* preset of one hour, or the custom period of two hours.
ValidExpirationChange(request) ==
    \/ request.ExpirationPreset = "1hour" /\ request.CustomExpiration = <<>>
    \/ /\ request.ExpirationPreset = "" /\ request.CustomExpiration # <<>>
       /\ request.CustomExpiration[1].Hours = <<"2">>
\* The new destination, if any, is one the operation accepts.
ValidDestinationChange(request) == request.URL # <<"a">>

\* The owner calls UpdateURL in this step on a stored link.
OwnerUpdates(o) ==
    /\ Starts(o) /\ op'[o].kind = "update"
    /\ \E u \in Named(o) : u.UserID = op'[o].args.userID

\* C25: UpdateURL by the owner on a link whose expiry is at or before now
\* fails with the expired-link error and changes nothing when the request
\* changes the destination only; with a valid expiration change, alone or
\* with a valid destination change, it goes on to save a link whose expiry
\* is strictly after now (and whose destination is the new one, if given).
ExpiredLinkNeedsNewExpiry ==
    [][\A o \in Ops : \A u \in urls :
          (/\ OwnerUpdates(o) /\ u \in Named(o)
           /\ u.ExpiresAt # <<>> /\ u.ExpiresAt[1] <= now) =>
            LET request == op'[o].args.request
            IN  /\ (ChangesDestination(request) /\ ~ChangesExpiration(request))
                     => /\ FailsWith(o, ErrExpiredLinkUpdate)
                        /\ urls' = urls
                /\ (ValidExpirationChange(request) /\ ValidDestinationChange(request))
                     => \/ FailsWith(o, ErrDatabase)
                        \/ /\ op'[o].pc = "save"
                           /\ op'[o].urlRecord.ExpiresAt # <<>>
                           /\ op'[o].urlRecord.ExpiresAt[1] > now
                           /\ op'[o].urlRecord.OriginalURL =
                                IF ChangesDestination(request)
                                THEN <<"https://">> \o request.URL
                                ELSE u.OriginalURL
      ]_vars

\* The owner's UpdateURL with a new destination and the one hour preset,
\* called when the link had expired, is about to save the reactivated link.
ExpiredLinkNeedsNewExpiryWitness ==
    \E o \in Ops : \E u \in urls :
        /\ op[o].pc = "save" /\ op[o].kind = "update"
        /\ u.ID = op[o].urlRecord.ID
        /\ u.ExpiresAt # <<>> /\ u.ExpiresAt[1] <= now
        /\ op[o].args.request.URL = <<"example.org/new">>
        /\ op[o].args.request.ExpirationPreset = "1hour"
        /\ op[o].urlRecord.ExpiresAt = <<now + 60>>
        /\ op[o].urlRecord.OriginalURL = <<"https://", "example.org/new">>

\* The request is one UpdateURL has to refuse.
Refused(request) ==
    \/ ~ChangesDestination(request) /\ ~ChangesExpiration(request)
    \/ request.ExpirationPreset # "" /\ request.CustomExpiration # <<>>
    \/ ChangesDestination(request) /\ ~ValidDestinationChange(request)
    \/ ChangesExpiration(request) /\ ~ValidExpirationChange(request)

\* C26: UpdateURL by the owner fails and stores nothing when the request
\* changes neither destination nor expiration, carries both a preset and
\* a custom specification, or has an invalid destination or an invalid
\* expiration; no link is ever saved for such a request, so a destination
\* change is never stored without the expiration change sent with it.
InvalidUpdateChangesNothing ==
    [][/\ \A o \in Ops : (OwnerUpdates(o) /\ Refused(op'[o].args.request))
            => /\ op'[o].pc = "done" /\ op'[o].err # NoError
               /\ urls' = urls
               /\ LET request == op'[o].args.request
                  IN  /\ (~ChangesDestination(request) /\ ~ChangesExpiration(request))
                            => FailsWith(o, ErrNoFieldsProvided)
                      /\ (request.ExpirationPreset # "" /\ request.CustomExpiration # <<>>)
                            => FailsWith(o, ErrBothExpirationProvided)
       /\ \A o \in Ops : (op[o].kind = "update" /\ urls' # urls)
            => ~Refused(op[o].args.request)
      ]_vars

\* The owner sent a new destination together with an unknown preset: the
\* call failed and the link has the destination it had.
InvalidUpdateChangesNothingWitness ==
    \E o \in Ops : \E u \in urls :
        /\ op[o].pc = "done" /\ op[o].kind = "update"
        /\ op[o].err = ErrInvalidPreset
        /\ op[o].args.request.URL = <<"example.org/new">>
        /\ op[o].args.request.ExpirationPreset = "2weeks"
        /\ u.ShortCode = op[o].args.code /\ u.UserID = op[o].args.userID
        /\ u.OriginalURL = SeedURL

\* Every stored link is active or paused.
StatusesValid(tbl) == \A u \in tbl : u.Status \in {StatusActive, StatusPaused}

\* C27: the status of every stored link is active or paused at all times;
\* UpdateURLStatus with another value fails with the validation error and
\* changes nothing, with an unknown code it fails with not-found and for
\* a caller who is not the owner with the permission error.
StatusIsActiveOrPaused ==
    /\ StatusesValid(urls)
    /\ [][/\ StatusesValid(urls')
          /\ \A o \in Ops : (Starts(o) /\ op'[o].kind = "status") =>
                IF ~Wellformed(o)
                THEN /\ op'[o].pc = "done" /\ op'[o].err = ErrInvalidStatus
                     /\ urls' = urls
                ELSE /\ Named(o) = {} => FailsWith(o, ErrURLNotFound)
                     /\ (\E u \in Named(o) : u.UserID # op'[o].args.userID)
                            => FailsWith(o, ErrPermissionDenied)
         ]_vars

\* The owner asked for the status "deleted" and got the validation error,
\* on a link that had been paused before.
StatusIsActiveOrPausedWitness ==
    \E o \in Ops : \E u \in urls :
        /\ op[o].pc = "done" /\ op[o].kind = "status"
        /\ op[o].err = ErrInvalidStatus
        /\ op[o].args.status = "deleted"
        /\ u.ShortCode = op[o].args.code /\ u.UserID = op[o].args.userID
        /\ u.Status = StatusPaused

\* C28: the write of a status update leaves destination, expiry, click
\* counter and QR cache of the stored link as they were committed.
StatusUpdateChangesOnlyStatus ==
    [][\A o \in Ops :
          (op[o].pc = "save" /\ op[o].kind = "status" /\ op'[o].pc = "done"
              /\ op'[o].err = NoError)
          => \A u \in urls : u.ID = op[o].urlRecord.ID =>
                \E w \in urls' :
                    /\ w.ID = u.ID
                    /\ w.OriginalURL = u.OriginalURL
                    /\ w.ExpiresAt = u.ExpiresAt
                    /\ w.ClickCount = u.ClickCount
                    /\ w.QRCodeImage = u.QRCodeImage
                    /\ w.QRCodeSize = u.QRCodeSize
                    /\ w.QRCodeFormat = u.QRCodeFormat
                    /\ w.QRCodeGeneratedAt = u.QRCodeGeneratedAt
      ]_vars

\* The period of a custom specification of CustomExpirations whose fields
\* are numbers, as numbers.
Period(c) ==
    [years |-> Atoi(c.Years).val, months |-> Atoi(c.Months).val,
     days |-> Atoi(c.Days).val, minutes |-> 60 * Atoi(c.Hours).val + Atoi(c.Minutes).val]

\* createdAt moved by the period: the calendar part, then hours and minutes.
Moved(t, c) ==
    AddDate(t, Period(c).years, Period(c).months, Period(c).days) + Period(c).minutes

\* What a call with this custom specification has to return.
CustomOutcome(c, t) ==
    IF c.Months = <<"x">> THEN [err |-> ErrMonths, at |-> <<>>]
    ELSE IF c.Years = <<"5">> THEN [err |-> ErrYears, at |-> <<>>]
    ELSE IF Moved(t, c) = t THEN [err |-> ErrNotFuture, at |-> <<>>]
    ELSE [err |-> NoError, at |-> <<Moved(t, c)>>]

\* What a call with this preset and no custom specification has to return.
PresetOutcome(preset, t) ==
    CASE preset = "1hour"   -> [err |-> NoError, at |-> <<t + 60>>]
      [] preset = "12hours" -> [err |-> NoError, at |-> <<t + 12 * 60>>]
      [] preset = "1day"    -> [err |-> NoError, at |-> <<t + MinutesPerDay>>]
      [] preset = "7days"   -> [err |-> NoError, at |-> <<t + 7 * MinutesPerDay>>]
      [] preset = "1month"  -> [err |-> NoError, at |-> <<AddDate(t, 0, 1, 0)>>]
      [] preset = "6months" -> [err |-> NoError, at |-> <<AddDate(t, 0, 6, 0)>>]
      [] preset = "1year"   -> [err |-> NoError, at |-> <<AddDate(t, 1, 0, 0)>>]
      [] OTHER              -> [err |-> ErrInvalidPreset, at |-> <<>>]

\* C29: with a custom specification the result is the one of that
\* specification and the reference time, whatever the preset; with none
\* and a named preset it is the reference time plus the preset's offset,
\* and an unknown name fails; with neither, or the preset "default", it is
\* the reference time plus five years.
CustomThenPresetThenDefault ==
    calc.pc = "returned" =>
        calc.result =
            IF calc.customExp # <<>>
            THEN CustomOutcome(calc.customExp[1], calc.createdAt)
            ELSE IF calc.preset \in {"", "default"}
            THEN [err |-> NoError, at |-> <<AddDate(calc.createdAt, 5, 0, 0)>>]
            ELSE PresetOutcome(calc.preset, calc.createdAt)

\* A call with the custom period of two hours and the preset of seven
\* days returned the reference time plus two hours.
CustomThenPresetThenDefaultWitness ==
    /\ calc.pc = "returned"
    /\ calc.preset = "7days"
    /\ calc.customExp # <<>> /\ calc.customExp[1].Hours = <<"2">>
    /\ calc.result = [err |-> NoError, at |-> <<calc.createdAt + 120>>]

\* C30: the custom specification of 4 years, 11 months and 30 days fails
\* with the error of a period of 1825 days or more.
LongestPeriodExceeds ==
    (/\ calc.pc = "returned"
     /\ calc.customExp # <<>>
     /\ calc.customExp[1] = Custom(<<"4">>, <<"1", "1">>, <<"3", "0">>, <<"0">>, <<"0">>))
        => calc.result.err = ErrExceeds

\* Every stored link with an expiry has it strictly after its creation.
ExpiryAfterCreation(tbl) ==
    \A u \in tbl : u.ExpiresAt # <<>> => u.ExpiresAt[1] > u.CreatedAt

\* The custom specification of the request has only zeros.
AllZeros(request) ==
    /\ request.CustomExpiration # <<>>
    /\ request.CustomExpiration[1] = Custom(<<"0">>, <<"0">>, <<"0">>, <<"0">>, <<"0">>)

\* C31: an expiry that UpdateURL takes from CalculateExpiration is
\* strictly after the reference time of the call, and the custom
\* specification of all zeros fails; the expiry of every stored link is
\* strictly after the link's creation time, in the created link and after
\* every update.
ExpiryStrictlyAfterReference ==
    /\ ExpiryAfterCreation(urls)
    /\ [][/\ ExpiryAfterCreation(urls')
          /\ \A o \in Ops :
                (OwnerUpdates(o) /\ ChangesExpiration(op'[o].args.request)) =>
                    /\ op'[o].pc = "save"
                          => /\ op'[o].urlRecord.ExpiresAt # <<>>
                             /\ op'[o].urlRecord.ExpiresAt[1] > now
                    /\ (/\ AllZeros(op'[o].args.request)
                        /\ op'[o].args.request.ExpirationPreset = ""
                        /\ ValidDestinationChange(op'[o].args.request))
                          => FailsWith(o, ErrNotFuture)
         ]_vars

\* The owner sent the custom specification of all zeros, the call failed
\* as not in the future and the link has the expiry it was created with.
ExpiryStrictlyAfterReferenceWitness ==
    \E o \in Ops : \E u \in urls :
        /\ op[o].pc = "done" /\ op[o].kind = "update"
        /\ op[o].err = ErrNotFuture
        /\ AllZeros(op[o].args.request)
        /\ u.ShortCode = op[o].args.code
        /\ u.ExpiresAt = <<u.CreatedAt + 60>>

\* The offsets of the presets that are counted in hours and days, in minutes.
FixedOffset(preset) ==
    CASE preset = "1hour"   -> 60
      [] preset = "12hours" -> 12 * 60
      [] preset = "1day"    -> 24 * 60
      [] preset = "7days"   -> 7 * 24 * 60

\* C32: without a custom specification, the presets 1hour, 12hours, 1day
\* and 7days return exactly the reference time plus one hour, twelve
\* hours, one day and seven days, with no error.
PresetsAreFixedOffsets ==
    (/\ calc.pc = "returned"
     /\ calc.customExp = <<>>
     /\ calc.preset \in {"1hour", "12hours", "1day", "7days"})
        => /\ calc.result.err = NoError
           /\ calc.result.at = <<calc.createdAt + FixedOffset(calc.preset)>>

\* A call with the preset 12hours and no custom specification, made at
\* a reference time after the first, returned that time plus 720 minutes.
PresetsAreFixedOffsetsWitness ==
    /\ calc.pc = "returned"
    /\ calc.customExp = <<>>
    /\ calc.preset = "12hours"
    /\ calc.createdAt > StartTime
    /\ calc.result.at = <<calc.createdAt + 720>>

\* The image util.GenerateQRCode renders for the short URL of this code.
ImageOf(code, size) == <<<<"https://www.sniply.co.in/", code>>, size>>

\* The stored link with this id has this image, size and format, and a
\* generation time.
CachedAs(tbl, id, image, size) ==
    \E u \in tbl : /\ u.ID = id
                   /\ u.QRCodeImage = image /\ u.QRCodeSize = size
                   /\ u.QRCodeFormat = "png" /\ u.QRCodeGeneratedAt # <<>>

\* Operation o of this kind writes its row in this step.
Saves(o, kind) ==
    /\ op[o].pc = "save" /\ op[o].kind = kind
    /\ op'[o].pc = "done" /\ op'[o].err = NoError

\* C33: GetQRCode by the owner on a link with a stored image returns that
\* image, size and format and writes nothing; on a link without one its
\* write stores the image rendered at the default size with size, format
\* and generation time and returns it; a returned image is always the one
\* stored; the write of GenerateQRCode stores the image rendered at the
\* size asked for, whatever was stored before.
QRCacheServedOrFilled ==
    [][\A o \in Ops :
          /\ (Starts(o) /\ op'[o].kind = "getqr") =>
                \A u \in Named(o) :
                    (u.UserID = op'[o].args.userID /\ u.QRCodeImage # <<>>) =>
                        /\ urls' = urls
                        /\ \/ FailsWith(o, ErrDatabase)
                           \/ /\ op'[o].pc = "done" /\ op'[o].err = NoError
                              /\ op'[o].urlRecord.QRCodeImage = u.QRCodeImage
                              /\ op'[o].urlRecord.QRCodeSize = u.QRCodeSize
                              /\ op'[o].urlRecord.QRCodeFormat = u.QRCodeFormat
          /\ Saves(o, "getqr") =>
                /\ CachedAs(urls', op[o].urlRecord.ID,
                            ImageOf(op[o].args.code, DefaultQRCodeSize), DefaultQRCodeSize)
                /\ op'[o].urlRecord.QRCodeImage =
                        ImageOf(op[o].args.code, DefaultQRCodeSize)
          /\ (op'[o].pc = "done" /\ op'[o].kind = "getqr" /\ op'[o].err = NoError) =>
                CachedAs(urls', op'[o].urlRecord.ID, op'[o].urlRecord.QRCodeImage,
                         op'[o].urlRecord.QRCodeSize)
          /\ Saves(o, "qr") =>
                CachedAs(urls', op[o].urlRecord.ID,
                         ImageOf(op[o].args.code, op[o].args.size), op[o].args.size)
      ]_vars

\* GetQRCode returned the image of 512 pixels that an explicit generation
\* had stored: the cache was served, nothing was rendered at the default.
QRCacheServedOrFilledWitness ==
    \E o \in Ops :
        /\ op[o].pc = "done" /\ op[o].kind = "getqr" /\ op[o].err = NoError
        /\ op[o].urlRecord.QRCodeImage = ImageOf(op[o].args.code, 512)
        /\ CachedAs(urls, op[o].urlRecord.ID, ImageOf(op[o].args.code, 512), 512)

\* The instants of the accepted calls of an address that lie in
\* [t - window, t], in the order of the calls.
AcceptedSince(ip, t) ==
    LET kept == SelectSeq(hist[ip], LAMBDA h : h.ok /\ h.at >= t - window /\ h.at <= t)
    IN  [i \in 1..Len(kept) |-> kept[i].at]

\* No stored timestamp is older than now - window.
NoStaleTimestamp ==
    \A ip \in DOMAIN rl.requests :
        \A i \in 1..Len(rl.requests[ip]) : rl.requests[ip][i] >= now - window

\* An accepted call made exactly window ago is still stored.
BoundaryStillStored ==
    \A ip \in ClientIPs :
        \A i \in 1..Len(hist[ip]) :
            (hist[ip][i].ok /\ hist[ip][i].at = now - window)
                => \E j \in 1..Len(TimesOf(rl.requests, ip)) :
                        rl.requests[ip][j] = hist[ip][i].at

\* C34: at every instant the timestamps stored for a key are exactly the
\* instants of its accepted calls in [now - window, now]: none is older,
\* and one made exactly window ago is stored.
StoredIsExactlyTheWindow ==
    /\ \A ip \in ClientIPs : TimesOf(rl.requests, ip) = AcceptedSince(ip, now)
    /\ NoStaleTimestamp
    /\ BoundaryStillStored

\* The step is a sweep that changed the map: no call returned in it.
Sweeps == hist' = hist /\ rl'.requests # rl.requests

\* How many of these timestamps an Allow call at instant t counts.
Counted(times, t) == Cardinality({i \in 1..Len(times) : times[i] > t - window})

\* C35: after a sweep every key of the map has a list that is not empty
\* and holds only timestamps newer than now - window, a key is left
\* exactly if it had such a timestamp, and for every address and every
\* instant from now on an Allow call counts as many timestamps as it
\* would have counted without the sweep, so it returns the same.
SweepLeavesOnlyLiveKeys ==
    [][Sweeps =>
          /\ \A ip \in DOMAIN rl'.requests :
                /\ rl'.requests[ip] # <<>>
                /\ \A i \in 1..Len(rl'.requests[ip]) :
                        rl'.requests[ip][i] > now - window
          /\ \A ip \in DOMAIN rl.requests :
                ip \in DOMAIN rl'.requests
                    <=> \E i \in 1..Len(rl.requests[ip]) :
                            rl.requests[ip][i] > now - window
          /\ \A ip \in ClientIPs : \A t \in LimiterInstants :
                t >= now =>
                    /\ Counted(TimesOf(rl'.requests, ip), t)
                            = Counted(TimesOf(rl.requests, ip), t)
                    /\ (Counted(TimesOf(rl'.requests, ip), t) >= maxReqs)
                            <=> (Counted(TimesOf(rl.requests, ip), t) >= maxReqs)
      ]_vars

\* A sweep has removed the key of an address whose calls had been
\* accepted, while the other address still has its key.
SweepLeavesOnlyLiveKeysWitness ==
    \E ip \in ClientIPs : \E jp \in ClientIPs :
        /\ \E i \in 1..Len(hist[ip]) : hist[ip][i].ok
        /\ ip \notin DOMAIN rl.requests
        /\ jp \in DOMAIN rl.requests
        /\ \A c \in Callers : call[c].pc = "idle"

\* This token opens a handler at the instant of the request: it is a
\* token of this server inside its window with an identifier as subject.
Opens(tok) == GoodAt(tok, areq.at) /\ tok.user_id \in UUIDs

\* C36: a request through AuthRequired or SwaggerAuthRequired that
\* carries the configured cookie is decided by the cookie's token alone,
\* whatever its Authorization header carries; without the cookie it is
\* decided by the token of a Bearer header, whatever the case of the
\* scheme and the spaces around the token; without either it is rejected
\* as missing a token.
CookieBeforeBearer ==
    AnsweredBy({"AuthRequired", "SwaggerAuthRequired"}) =>
        IF CookieSent # <<>>
        THEN /\ areq.c.handlerRan <=> Opens(CookieSent[1])
             /\ areq.c.handlerRan => areq.c.keys.claims # <<>>
             /\ (areq.c.handlerRan /\ areq.request.mw = "SwaggerAuthRequired")
                    => areq.c.keys.token = CookieSent
        ELSE IF BearerSent
        THEN /\ areq.c.handlerRan <=> Opens(areq.request.authorization[1].token)
             /\ (areq.c.handlerRan /\ areq.request.mw = "SwaggerAuthRequired")
                    => areq.c.keys.token = <<areq.request.authorization[1].token>>
        ELSE /\ ~areq.c.handlerRan
             /\ areq.c.wwwAuthenticate = ""

\* The request carried an expired token in the cookie and the valid token
\* of the client's session in the Bearer header: it was rejected as
\* expired.
CookieBeforeBearerWitness ==
    /\ AnsweredBy({"AuthRequired"})
    /\ CookieSent # <<>> /\ ~Opens(CookieSent[1])
    /\ BearerSent /\ Opens(areq.request.authorization[1].token)
    /\ ~areq.c.handlerRan /\ areq.c.aborted
    /\ areq.c.status = StatusUnauthorized
    /\ areq.c.wwwAuthenticate = WWWAuthenticateExpired

\* The status handleControllerError has to give for the errors that have
\* a declared kind.
KindStatus(text) ==
    CASE text = ErrURLNotFound            -> StatusNotFound
      [] text = ErrPermissionDenied       -> StatusForbidden
      [] text = ErrInvalidStatus          -> StatusBadRequest
      [] text = ErrExpiredLinkUpdate      -> StatusGone
      [] text = ErrNoFieldsProvided       -> StatusBadRequest
      [] text = ErrBothExpirationProvided -> StatusBadRequest

\* C37: the not-found, permission, invalid-status, expired-link, no-fields
\* and both-expirations errors that the operations return are the declared
\* errors: handleControllerError reports each as handled, with its status.
ControllerErrorsHaveKinds ==
    \A o \in Ops :
        (/\ op[o].pc = "done"
         /\ op[o].err \in {ErrURLNotFound, ErrPermissionDenied, ErrInvalidStatus,
                           ErrExpiredLinkUpdate, ErrNoFieldsProvided,
                           ErrBothExpirationProvided})
            => /\ ErrorsIs(ControllerError(op[o].err), Sentinel(op[o].err))
               /\ handleControllerError(ControllerError(op[o].err)) =
                    [handled |-> TRUE, status |-> KindStatus(op[o].err)]

\* The visit rows committed in this step.
CommittedVisits == visits' \ visits

\* The stored link is active at the commit.
ActiveAtCommit(v) == \E u \in urls' : u.ID = v.URLID /\ u.Status = StatusActive
\* The stored link has not expired at the commit.
UnexpiredAtCommit(v) == \E u \in urls' : u.ID = v.URLID /\ ~IsExpired(u, now)

\* C38: a visit is committed only while the stored link is active and
\* its expiry is after now.
VisitsOnlyWhileServed ==
    [][\A v \in CommittedVisits : ActiveAtCommit(v) /\ UnexpiredAtCommit(v)]_vars

\* RequestTimeout is blocked in its select for request s.
InSelect(s) == sup[s].pc = "select"

\* C39: RequestTimeout returns for every request, whether or not the
\* handler's goroutine ever finishes; it returns only when finished is
\* closed or the context is done.
RequestTimeoutReturns ==
    /\ \A s \in Supports : InSelect(s) ~> ~InSelect(s)
    /\ [][\A s \in Supports :
            (InSelect(s) /\ ~InSelect(s)') => (sup[s].finished \/ sup[s].ctx # "")]_vars

\* RequestTimeout has returned at the deadline and the request has ended,
\* while the handler's goroutine is still inside SubmitSupport, which it
\* entered on the same Context.
RequestTimeoutReturnsWitness ==
    \E s \in Supports :
        /\ sup[s].pc = "ended" /\ sup[s].ctx = "deadline"
        /\ sup[s].hpc = "running"
        /\ ~sup[s].finished
        /\ StatusGatewayTimeout = sup[s].written[Len(sup[s].written)]

====
